---------------------------- MODULE Spec2Model ----------------------------
(***************************************************************************)
(* A model of the site scanner of src/app/api/scan-site/route.ts: the URL  *)
(* classifier (isLikelyPostUrl), the moderation adapter (isSafeContent,    *)
(* analyzeTextWithAI) and the scan handler (POST) with its two fan-outs,   *)
(* the phase-2 expansion of the crawl and the batches of per-post tasks.   *)
(*                                                                         *)
(* Strings are TLA+ strings: Len, SubSeq and \o act on them as on          *)
(* sequences of characters, so that includes(), split(), toLowerCase()     *)
(* and the regular expressions of the source are computed on the           *)
(* characters, as the code computes them.                                  *)
(***************************************************************************)
EXTENDS Integers, Sequences, FiniteSets, TLC

VARIABLES
    clsUrl,        \* classifier harness: the argument of isLikelyPostUrl
    clsPc,         \* classifier harness: "input" | "classified"
    clsVerdict,    \* classifier harness: what isLikelyPostUrl returned
    modText,       \* adapter harness: the text given to analyzeTextWithAI
    modUrl,        \* adapter harness: the url given to analyzeTextWithAI
    modConfigured, \* adapter harness: openai is not null (route.ts:20)
    modPc,         \* adapter harness: "start" | "calling" | "returned"
    modCalls,      \* adapter harness: external calls made (route.ts:390)
    modReply,      \* adapter harness: the reply of the external call
    modVerdict     \* adapter harness: what analyzeTextWithAI returned

clsVars == << clsUrl, clsPc, clsVerdict >>
modVars == << modText, modUrl, modConfigured, modPc, modCalls, modReply, modVerdict >>

-----------------------------------------------------------------------------
(* String primitives of JavaScript, on TLA+ strings.                       *)

\* s[i], the character at 1-based position i ("" outside the string).
CharAt(s, i) ==
    IF i >= 1 /\ i <= Len(s) THEN SubSeq(s, i, i) ELSE ""

\* s.startsWith(k, i-1): k occurs in s at 1-based position i.
OccursAt(s, k, i) ==
    /\ i >= 1
    /\ i + Len(k) - 1 <= Len(s)
    /\ SubSeq(s, i, i + Len(k) - 1) = k

\* s.includes(k)
Includes(s, k) ==
    \E i \in 1..(Len(s) - Len(k) + 1) : OccursAt(s, k, i)

\* s.startsWith(k)
StartsWith(s, k) ==
    OccursAt(s, k, 1)

\* s.endsWith(k)
EndsWith(s, k) ==
    Len(k) <= Len(s) /\ OccursAt(s, k, Len(s) - Len(k) + 1)

\* The first position >= from of s that holds one of the characters cs, or
\* Len(s) + 1 when there is none.
FirstOf(s, cs, from) ==
    LET hits == { i \in from..Len(s) : CharAt(s, i) \in cs }
    IN  IF hits = {} THEN Len(s) + 1
        ELSE CHOOSE i \in hits : \A j \in hits : i <= j

UpperCaseLetters == "ABCDEFGHIJKLMNOPQRSTUVWXYZ"
LowerCaseLetters == "abcdefghijklmnopqrstuvwxyz"

\* The lower-case letter of each upper-case letter.
LowerOf ==
    [ c \in { CharAt(UpperCaseLetters, i) : i \in 1..Len(UpperCaseLetters) } |->
        CharAt(LowerCaseLetters,
               CHOOSE i \in 1..Len(UpperCaseLetters) : CharAt(UpperCaseLetters, i) = c) ]

LowerChar(c) ==
    IF c \in DOMAIN LowerOf THEN LowerOf[c] ELSE c

\* s.toLowerCase(), by halves (the recursion is as deep as log2 of the length).
RECURSIVE ToLowerCase(_)
ToLowerCase(s) ==
    IF Len(s) = 0 THEN ""
    ELSE IF Len(s) = 1 THEN LowerChar(s)
    ELSE LET h == Len(s) \div 2
         IN  ToLowerCase(SubSeq(s, 1, h)) \o ToLowerCase(SubSeq(s, h + 1, Len(s)))

Digits == { "0", "1", "2", "3", "4", "5", "6", "7", "8", "9" }

\* /^\d+$/.test(s)
IsAllDigits(s) ==
    Len(s) >= 1 /\ \A i \in 1..Len(s) : CharAt(s, i) \in Digits

\* s.split(sep).filter(Boolean) for a one-character sep: the non-empty pieces,
\* in order, from position i on.
RECURSIVE SplitNonEmptyFrom(_, _, _)
SplitNonEmptyFrom(s, sep, i) ==
    IF i > Len(s) THEN << >>
    ELSE LET j == FirstOf(s, {sep}, i)
         IN  (IF j > i THEN << SubSeq(s, i, j - 1) >> ELSE << >>)
             \o SplitNonEmptyFrom(s, sep, j + 1)

\* s.split('#')[0]
BeforeHash(s) ==
    SubSeq(s, 1, FirstOf(s, {"#"}, 1) - 1)

-----------------------------------------------------------------------------
(* new URL(s) for an absolute http(s) URL: the parts the code reads.  The   *)
(* scheme and the host are lower-cased; the host (name and port) ends at   *)
(* the first "/", "?" or "#", the hostname at the ":" of the port; an      *)
(* empty path is "/"; the hash getter is "" for an absent and for an empty *)
(* fragment, while href keeps the "#" of an empty fragment.                *)
ParseUrl(s) ==
    LET hostStart == FirstOf(s, {":"}, 1) + 3
        hostEnd   == FirstOf(s, {"/", "?", "#"}, hostStart)
        pathEnd   == FirstOf(s, {"?", "#"}, hostEnd)
        queryEnd  == FirstOf(s, {"#"}, pathEnd)
        rawPath   == SubSeq(s, hostEnd, pathEnd - 1)
        rawQuery  == SubSeq(s, pathEnd, queryEnd - 1)
        rawFrag   == SubSeq(s, queryEnd, Len(s))
        path      == IF rawPath = "" THEN "/" ELSE rawPath
        protocol  == ToLowerCase(SubSeq(s, 1, hostStart - 3))
        host      == ToLowerCase(SubSeq(s, hostStart, hostEnd - 1))
        hostname  == SubSeq(host, 1, FirstOf(host, {":"}, 1) - 1)
    IN  [ protocol |-> protocol,
          host     |-> host,
          hostname |-> hostname,
          pathname |-> path,
          search   |-> IF Len(rawQuery) > 1 THEN rawQuery ELSE "",
          hash     |-> IF Len(rawFrag) > 1 THEN rawFrag ELSE "",
          href     |-> protocol \o "//" \o host \o path \o rawQuery \o rawFrag ]

-----------------------------------------------------------------------------
(* isLikelyPostUrl, route.ts:75-153.                                       *)

\* route.ts:92-104 (isLikelyPostUrl) and 169-181 (isSafeContent): the same list.
toolKeywords ==
    << "download", "torrent", "crack", "keygen", "serial", "hack", "patch", "key", "activation",
       "free-download", "download-free", "free-torrent", "torrent-download", "cracked",
       "crack-download", "crack-free", "apk-download", "apk-free", "app-download", "app-free",
       "software-download", "software-free", "free-software", "movie-download", "movie-free",
       "free-movie", "torrent-movie", "music-download", "music-free", "free-music",
       "torrent-music", "downloader", "video-downloader", "audio-downloader", "mp3-downloader",
       "mp4-downloader", "instagram-downloader", "tiktok-downloader", "youtube-downloader",
       "facebook-downloader", "soundcloud-downloader", "twitch-downloader", "pinterest-downloader" >>

\* route.ts:114: the alternatives of the first pattern, /\/(category|tag|author|...)/,
\* each listed once (the source repeats some).
obviousCategoryKeywords ==
    { "category", "tag", "author", "feed", "search", "wp-json", "archive", "tools", "tool",
      "blog", "news", "events", "products", "services", "portfolio", "projects", "members",
      "groups", "forums", "topics", "threads", "comments", "reviews", "testimonials", "faq",
      "support", "help", "docs", "documentation", "tutorials", "guides", "resources", "media",
      "galleries", "photos", "images", "videos", "audio", "music", "files", "attachments",
      "uploads", "admin", "login", "register", "signup", "cart", "checkout", "shop", "store",
      "pricing", "plans", "packages", "deals", "offers", "promotions", "campaigns", "banners",
      "ads", "advertising", "sponsors", "partners", "affiliates", "referrals", "tracking",
      "stats", "statistics", "analytics", "reports", "dashboards", "control", "control-panel",
      "settings", "preferences", "profile", "account", "user", "users", "dashboard",
      "admin-panel", "wp-admin", "wp-content", "wp-includes", "cgi-bin", "bin", "includes", "inc",
      "lib", "libraries", "modules", "plugins", "themes", "templates", "layouts", "designs",
      "styles", "css", "js", "javascript", "scripts", "api", "json", "xml", "rss", "atom",
      "sitemap", "robots", "favicon", "apple-touch-icon", "manifest", "browserconfig", "humans",
      "readme", "license", "copyright", "trademark", "patent", "privacy-policy",
      "terms-of-service", "tos", "eula", "end-user-license-agreement", "disclaimer",
      "refund-policy", "return-policy", "shipping-policy", "delivery-policy", "warranty",
      "guarantee", "money-back", "moneyback", "satisfaction", "security", "ssl", "tls",
      "encryption", "certificate", "cert", "keys", "key", "token", "access", "password", "pass",
      "signin", "sign-in", "sign_up", "registration", "subscribe", "subscription", "newsletter",
      "mailing", "mail", "email", "e-mail", "contact-us", "contactus", "contact_form", "form",
      "feedback", "ticket", "issue", "bug", "report", "complaint", "claim", "request", "inquiry",
      "question", "frequently-asked-questions", "about-us", "aboutus", "about", "company", "team",
      "staff", "employees", "careers", "jobs", "employment", "work", "hire", "recruitment",
      "apply", "application", "resume", "cv", "solutions", "features", "benefits", "advantages",
      "pros", "cons", "comparison", "vs", "versus", "alternative", "alternatives", "review",
      "rating", "ratings", "testimony", "testimonial", "recommendation", "recommendations",
      "endorsement", "endorsements", "praise", "praises", "award", "awards", "certification",
      "certifications", "licenses", "accreditation", "accreditations", "membership",
      "memberships", "subscriptions", "price", "cost", "fee", "fees", "charge", "charges",
      "payment", "payments", "billing", "invoice", "receipt", "order", "orders", "purchase",
      "purchases", "buy", "sell", "sale", "sales", "transaction", "transactions", "deal", "offer",
      "discount", "discounts", "coupon", "coupons", "promo", "promos", "promotion", "campaign",
      "marketing", "ad", "advertisement", "advertisements", "banner", "sponsor", "partner",
      "affiliate", "referral", "track", "controls", "setting", "preference", "profiles",
      "accounts", "member", "sign", "benefit", "comment", "compare", "compliance", "confirm",
      "confirmation", "contact", "content", "contract", "contribute", "contributor", "create",
      "credit", "currency", "current", "custom", "customer", "customize", "data", "database",
      "date", "day", "deactivate", "debug", "default", "delete", "deliver", "delivery", "demo",
      "department", "deploy", "deposit", "design", "destroy", "detail", "developer",
      "development", "device", "diagnostic", "diagram", "dialog", "dictionary", "difference",
      "directory", "disable", "discuss", "discussion", "disk", "display", "document", "domain",
      "donate", "donation", "download", "draft", "edit", "editor", "effect", "employee", "enable",
      "encrypt", "end", "engine", "enterprise", "entry", "environment", "error", "event",
      "example", "exchange", "execute", "exit", "experience", "export", "external", "factory",
      "feature", "file", "filter", "find", "fix", "flash", "folder", "font", "footer", "format",
      "forum", "forward", "framework", "free", "frequency", "friend", "ftp", "function", "fund",
      "gallery", "game", "gateway", "general", "generate", "generator", "get", "gift", "global",
      "goal", "google", "govern", "governance", "group", "guide", "gzip", "header", "history",
      "home", "host", "hosting", "hour", "html", "icon", "id", "idea", "identify", "identity",
      "image", "import", "inbox", "index", "industry", "info", "information", "input", "insert",
      "install", "instance", "institute", "instruction", "instrument", "insurance", "integration",
      "interface", "internet", "interval", "intro", "introduct", "inventory", "invite", "ip",
      "item", "java", "job", "join", "journal", "jump", "keyboard", "keyword", "label",
      "language", "launch", "law", "layer", "layout", "leader", "lead", "learn", "legal", "level",
      "limit", "line", "link", "list", "load", "local", "location", "lock", "log", "logo",
      "logout", "logotype", "main", "manage", "manager", "manual", "map", "market", "master",
      "match", "max", "maximum", "memory", "menu", "merge", "message", "meta", "metadata",
      "method", "min", "minimum", "minute", "mirror", "mobile", "mode", "model", "module",
      "monitor", "month", "more", "move", "multi", "name", "navigate", "navigation", "network",
      "new", "next", "no", "node", "note", "notification", "notify", "number", "object", "office",
      "offline", "offset", "online", "open", "operation", "option", "organization", "organize",
      "origin", "output", "overview", "owner", "package", "page", "pagination", "panel", "paper",
      "paragraph", "parent", "part", "party", "paste", "patch", "path", "pdf", "peer", "pending",
      "people", "percent", "period", "permission", "permit", "person", "personal", "phone",
      "photo", "php", "physical", "pin", "ping", "pixel", "plan", "platform", "play", "plugin",
      "policy", "poll", "pop", "popular", "popup", "portal", "post", "power", "premium",
      "present", "presentation", "preview", "previous", "primary", "print", "privacy", "private",
      "process", "processor", "product", "production", "program", "progress", "project",
      "protocol", "provider", "proxy", "public", "publish", "pull", "push", "quality", "quantity",
      "query", "queue", "quick", "quote", "radio", "random", "range", "rank", "rate", "read",
      "reader", "reading", "ready", "real", "rebuild", "receive", "recent", "recommend", "record",
      "recover", "recovery", "recruit", "redirect", "reduce", "reference", "refund", "refuse",
      "regenerate", "region", "regular", "reject", "relation", "relationship", "release",
      "reload", "remove", "rename", "render", "renew", "repair", "repeat", "replace", "reply",
      "repository", "require", "requirement", "rescue", "research", "reset", "resize",
      "resolution", "resolve", "resource", "response", "restore", "result", "retire", "return",
      "reverse", "revoke", "right", "role", "root", "route", "router", "rule", "run", "safe",
      "sample", "save", "scale", "scan", "schedule", "schema", "scope", "score", "screen",
      "script", "scroll", "second", "section", "select", "self", "send", "sent", "sequence",
      "serial", "server", "service", "session", "set", "setup", "share", "shell", "shift", "show",
      "shutdown", "signal", "signature", "sim", "simulation", "single", "site", "size", "skill",
      "slide", "slot", "sms", "social", "software", "solution", "sort", "source", "space", "spam",
      "spec", "special", "specific", "specification", "speed", "spell", "spelling", "split",
      "sport", "sql", "src", "stage", "standard", "start", "state", "static", "station",
      "statistic", "status", "stop", "storage", "stream", "string", "structure", "style",
      "stylesheet", "sub", "subject", "submit", "subscript", "success", "suggest", "summary",
      "suspend", "swap", "switch", "symbol", "sync", "synchronize", "syntax", "system", "tab",
      "table", "target", "task", "tech", "tele", "telephone", "template", "term", "terminal",
      "test", "text", "theme", "thread", "time", "tip", "title", "to", "today", "toggle", "top",
      "topic", "total", "tour", "trade", "traffic", "transfer", "transform", "transition",
      "translate", "transport", "trash", "tree", "trigger", "type", "ui", "unban", "undo",
      "uninstall", "union", "unit", "unlimit", "unlock", "unmark", "unpin", "unpublish",
      "unquote", "unregister", "unrestrict", "unsubscribe", "unwatch", "update", "upgrade",
      "upload", "url", "usage", "use", "username", "utility", "validate", "validation", "value",
      "variable", "variant", "version", "video", "view", "viewer", "virtual", "virus", "visit",
      "visitor", "volume", "vote", "vpn", "watch", "web", "website", "week", "welcome", "widget",
      "wifi", "wiki", "window", "wireless", "word", "worker", "workflow", "workplace",
      "workspace", "world", "write", "writer", "writing", "www", "year", "yes", "zip" }

\* route.ts:107: toolKeywords.some(keyword => path.includes(keyword))
HasToolKeyword(path) ==
    \E n \in 1..Len(toolKeywords) : Includes(path, toolKeywords[n])

\* The longest alternative of the first pattern.
MaxCategoryKeywordLen ==
    CHOOSE n \in 1..64 :
        /\ \E k \in obviousCategoryKeywords : Len(k) = n
        /\ \A k \in obviousCategoryKeywords : Len(k) <= n

\* route.ts:114: /\/(category|tag|...)/.test(s): somewhere in s a "/" is
\* followed at once by one of the alternatives (nothing need follow it).
MatchesCategoryKeyword(s) ==
    \E i \in 1..Len(s) :
        /\ CharAt(s, i) = "/"
        /\ \E n \in 1..MaxCategoryKeywordLen :
               /\ i + n <= Len(s)
               /\ SubSeq(s, i + 1, i + n) \in obviousCategoryKeywords

\* route.ts:115: /\/page\/\d+/.test(s)
MatchesPageNumber(s) ==
    \E i \in 1..Len(s) : OccursAt(s, "/page/", i) /\ CharAt(s, i + 6) \in Digits

\* route.ts:116: /\/feed$/.test(s)
MatchesTrailingFeed(s) ==
    EndsWith(s, "/feed")

\* route.ts:120: obviousCategoryPatterns.some(pattern => pattern.test(cleanUrl))
MatchesObviousCategory(cleanUrl) ==
    \/ MatchesCategoryKeyword(cleanUrl)
    \/ MatchesPageNumber(cleanUrl)
    \/ MatchesTrailingFeed(cleanUrl)

\* route.ts:130-152: the verdict of the last step, from the path and its segments.
LooksLikeContentPost(path, segments) ==
    IF Len(segments) >= 1
    THEN LET lastSegment == segments[Len(segments)]
         IN  IF /\ Len(lastSegment) > 4
                /\ ~IsAllDigits(lastSegment)
                /\ lastSegment \notin { "page", "category", "tag" }
             THEN TRUE
             ELSE IF EndsWith(path, "/") /\ Len(segments) >= 1
             THEN Len(lastSegment) > 4 /\ ~IsAllDigits(lastSegment)
             ELSE FALSE
    ELSE FALSE

\* A variant of isLikelyPostUrl with steps 2 and 3 exchanged: the structural
\* rejection is evaluated before the tool/download override.
isLikelyPostUrl_CategoryFirst(url) ==
    LET u        == ToLowerCase(url)
        urlObj   == ParseUrl(u)
        path     == urlObj.pathname
        segments == SplitNonEmptyFrom(path, "/", 1)
        cleanUrl == BeforeHash(u)
    IN  IF urlObj.hash # "" THEN FALSE
        ELSE IF MatchesObviousCategory(cleanUrl) THEN FALSE
        ELSE IF HasToolKeyword(path) THEN TRUE
        ELSE LooksLikeContentPost(path, segments)

\* A variant of isLikelyPostUrl with steps 1 and 2 exchanged: the tool/download
\* override is evaluated before the fragment rejection.
isLikelyPostUrl_KeywordFirst(url) ==
    LET u        == ToLowerCase(url)
        urlObj   == ParseUrl(u)
        path     == urlObj.pathname
        segments == SplitNonEmptyFrom(path, "/", 1)
        cleanUrl == BeforeHash(u)
    IN  IF HasToolKeyword(path) THEN TRUE
        ELSE IF urlObj.hash # "" THEN FALSE
        ELSE IF MatchesObviousCategory(cleanUrl) THEN FALSE
        ELSE LooksLikeContentPost(path, segments)

\* A variant of isLikelyPostUrl with steps 3 and 4 exchanged: a qualifying final
\* segment is accepted before the structural rejection is evaluated.
isLikelyPostUrl_ContentFirst(url) ==
    LET u        == ToLowerCase(url)
        urlObj   == ParseUrl(u)
        path     == urlObj.pathname
        segments == SplitNonEmptyFrom(path, "/", 1)
        cleanUrl == BeforeHash(u)
    IN  IF urlObj.hash # "" THEN FALSE
        ELSE IF HasToolKeyword(path) THEN TRUE
        ELSE IF LooksLikeContentPost(path, segments) THEN TRUE
        ELSE FALSE

isLikelyPostUrl(url) ==
    LET u        == ToLowerCase(url)
        urlObj   == ParseUrl(u)
        path     == urlObj.pathname
        segments == SplitNonEmptyFrom(path, "/", 1)
        cleanUrl == BeforeHash(u)
    IN  IF urlObj.hash # "" THEN FALSE
        ELSE IF HasToolKeyword(path) THEN TRUE
        ELSE IF MatchesObviousCategory(cleanUrl) THEN FALSE
        ELSE LooksLikeContentPost(path, segments)

-----------------------------------------------------------------------------
(* The classifier on its own: Init draws a URL, ClassifyUrl applies        *)
(* isLikelyPostUrl to it.                                                  *)

ClsSchemes == { "https://", "http://" }
ClsHosts == { "acme.org", "www.acme.org", "Blog.Acme.org" }
ClsPaths ==
    { "", "/", "/my-great-article", "/my-great-article/", "/My-Great-Article",
      "/2024/05/my-great-article", "/abcd", "/abcd/", "/12345", "/zebra/123456/",
      "/stories/12", "/category/recipes", "/category/", "/tagged-items", "/page/2",
      "/stories/page/3", "/stories/feed", "/feed/", "/blog/my-great-article",
      "/download/page/2", "/category/cracked-apps", "/free-download/feed", "/key",
      "/hack/12", "/DOWNLOAD-now", "/keygen/", "/zebra/downloader/feed" }
ClsQueries == { "", "?", "?p=1", "?next=/tag" }
ClsFragments == { "", "#", "#comments" }

ClsUrls ==
    { s \o h \o p \o q \o f :
        s \in ClsSchemes, h \in ClsHosts, p \in ClsPaths, q \in ClsQueries,
        f \in ClsFragments }

ClsInit ==
    /\ clsUrl \in ClsUrls
    /\ clsPc = "input"
    /\ clsVerdict = FALSE

ClassifyUrl ==
    /\ clsPc = "input"
    /\ clsVerdict' = isLikelyPostUrl(clsUrl)
    /\ clsPc' = "classified"
    /\ UNCHANGED clsUrl

ClsIdle ==
    /\ clsUrl = ""
    /\ clsPc = "idle"
    /\ clsVerdict = FALSE

-----------------------------------------------------------------------------
(* JavaScript values of the classifier's JSON reply, tagged with their     *)
(* type: t is "undefined", "null", "boolean", "number", "string", "array"  *)
(* or "object"; s is the text of a string, n the number (1 for true), a    *)
(* the elements of an array.                                               *)

JsUndefined == [ t |-> "undefined", s |-> "", n |-> 0, a |-> << >> ]
JsString(x) == [ t |-> "string", s |-> x, n |-> 0, a |-> << >> ]
JsNumber(k) == [ t |-> "number", s |-> "", n |-> k, a |-> << >> ]
JsArray(xs) == [ t |-> "array", s |-> "", n |-> 0, a |-> xs ]
JsObject == [ t |-> "object", s |-> "", n |-> 0, a |-> << >> ]

\* !v is false: v is none of undefined, null, false, 0, "".
Truthy(v) ==
    CASE v.t \in { "undefined", "null" } -> FALSE
      [] v.t \in { "boolean", "number" } -> v.n # 0
      [] v.t = "string" -> v.s # ""
      [] OTHER -> TRUE

\* v.length, where it is a number (strings and arrays).
HasLength(v) == v.t \in { "string", "array" }

JsLength(v) == IF v.t = "string" THEN Len(v.s) ELSE Len(v.a)

\* A confidence in hundredths (0.8 is 80), or none.
Confidence(x100) == [ has |-> TRUE, x100 |-> x100 ]
NoConfidence == [ has |-> FALSE, x100 |-> 0 ]

\* An element of a violations array: an object {type, excerpt, confidence}, or null.
Violation(type, excerpt, confidence) ==
    [ isNull |-> FALSE, type |-> type, excerpt |-> excerpt, confidence |-> confidence ]
NullElement ==
    [ isNull |-> TRUE, type |-> "", excerpt |-> "", confidence |-> NoConfidence ]

\* route.ts:488: v.confidence > 0.8
ConfidenceThreshold == 80

-----------------------------------------------------------------------------
(* isSafeContent, route.ts:167-216.                                        *)

\* route.ts:188-192.
safeKeywords ==
    << "how to", "tutorial", "guide", "tips", "review", "best", "top", "education", "learning",
       "news", "updates", "opinion", "analysis", "recipe", "cooking", "travel", "lifestyle",
       "fitness", "health" >>

\* route.ts:194-198.
dangerKeywords ==
    << "casino", "betting", "gamble", "porn", "sex", "scam", "fake download", "lottery",
       "win money", "get rich", "miracle cure", "hack", "crack", "torrent", "free iphone",
       "make money fast", "hate speech" >>

\* route.ts:203: dangerKeywords.some(kw => lower.includes(kw))
HasDangerKeyword(lower) ==
    \E n \in 1..Len(dangerKeywords) : Includes(lower, dangerKeywords[n])

\* route.ts:209: safeKeywords.some(kw => lower.includes(kw))
HasSafeKeyword(lower) ==
    \E n \in 1..Len(safeKeywords) : Includes(lower, safeKeywords[n])

\* A variant of isSafeContent with the safe check evaluated before the danger check.
isSafeContent_SafeFirst(text, urlPath) ==
    IF HasToolKeyword(ToLowerCase(urlPath)) THEN FALSE
    ELSE LET lower == ToLowerCase(text)
         IN  IF HasSafeKeyword(lower) THEN TRUE
             ELSE FALSE

\* A variant of isSafeContent that looks for the keywords in the text as given,
\* without lower-casing it.
isSafeContent_CaseSensitive(text, urlPath) ==
    IF HasToolKeyword(ToLowerCase(urlPath)) THEN FALSE
    ELSE IF HasDangerKeyword(text) THEN FALSE
         ELSE IF HasSafeKeyword(text) THEN TRUE
         ELSE FALSE

isSafeContent(text, urlPath) ==
    IF HasToolKeyword(ToLowerCase(urlPath)) THEN FALSE
    ELSE LET lower == ToLowerCase(text)
         IN  IF HasDangerKeyword(lower) THEN FALSE
             ELSE IF HasSafeKeyword(lower) THEN TRUE
             ELSE FALSE

-----------------------------------------------------------------------------
(* analyzeTextWithAI, route.ts:377-509.  A verdict is                      *)
(* {violations, summary, suggestions}: violations is a list of Violation   *)
(* objects, summary and suggestions are JavaScript values.  A reply of the *)
(* external classifier is                                                  *)
(*   kind "throw":   the call rejects (network, API error);                *)
(*   kind "empty":   no choices[0].message.content;                        *)
(*   kind "text":    content in which /\{[\s\S]*\}/ finds nothing;         *)
(*   kind "badjson": a {...} match that JSON.parse rejects;                *)
(*   kind "json":    a parsed object with the fields violations (vt its    *)
(*                   type, vitems its elements when an array), summary     *)
(*                   and suggestions.                                      *)

Verdict(violations, summary, suggestions) ==
    [ violations |-> violations, summary |-> summary, suggestions |-> suggestions ]

\* route.ts:383
SafeVerdict == Verdict(<< >>, JsString("Safe content"), JsArray(<< >>))
\* route.ts:472
NoContentVerdict == Verdict(<< >>, JsString("AI returned no content"), JsArray(<< >>))
\* route.ts:479
NotJsonVerdict ==
    Verdict(<< >>, JsString("AI response not in expected JSON format"), JsArray(<< >>))
\* route.ts:507
ErrorVerdict == Verdict(<< >>, JsString("AI error"), JsArray(<< >>))

Reply(kind, vt, vitems, summary, suggestions) ==
    [ kind |-> kind, vt |-> vt, vitems |-> vitems, summary |-> summary,
      suggestions |-> suggestions ]

ThrowReply == Reply("throw", "undefined", << >>, JsUndefined, JsUndefined)
EmptyReply == Reply("empty", "undefined", << >>, JsUndefined, JsUndefined)
TextReply == Reply("text", "undefined", << >>, JsUndefined, JsUndefined)
BadJsonReply == Reply("badjson", "undefined", << >>, JsUndefined, JsUndefined)
JsonReply(vt, vitems, summary, suggestions) ==
    Reply("json", vt, vitems, summary, suggestions)

\* A variant of the filter that keeps a confidence of exactly 0.8.
RetainViolation_Inclusive(v) ==
    v.confidence.has /\ v.confidence.x100 >= ConfidenceThreshold

\* route.ts:488: (v) => v.confidence > 0.8, on an object
RetainViolation(v) ==
    v.confidence.has /\ v.confidence.x100 > ConfidenceThreshold

\* route.ts:381: the pre-filter of the adapter.
PreFilteredSafe(text, url) ==
    isSafeContent(text, ParseUrl(url).pathname)

\* route.ts:464-508: what the adapter returns for a reply of the classifier.
ProcessReply(reply) ==
    CASE reply.kind = "throw" -> ErrorVerdict
      [] reply.kind = "empty" -> NoContentVerdict
      [] reply.kind = "text" -> NotJsonVerdict
      [] reply.kind = "badjson" -> ErrorVerdict
      [] OTHER ->
            IF reply.vt = "array" /\ \E i \in 1..Len(reply.vitems) : reply.vitems[i].isNull
            THEN ErrorVerdict     \* v.confidence of null throws inside the try
            ELSE Verdict(
                    IF reply.vt = "array"
                    THEN SelectSeq(reply.vitems, RetainViolation)
                    ELSE << >>,
                    IF Truthy(reply.summary) THEN reply.summary
                    ELSE JsString("Analysis complete"),
                    IF Truthy(reply.suggestions) THEN reply.suggestions
                    ELSE JsArray(<< >>))

-----------------------------------------------------------------------------
(* The adapter on its own: Init draws the text, the URL, and whether the   *)
(* client is configured (route.ts:19-20); ModPreFilter is the synchronous  *)
(* start of analyzeTextWithAI, ModReply the return of the external call.   *)

\* The longest violations array of a reply.
MaxReported == 2

ModTexts ==
    { "Welcome to our garden blog. We grow tomatoes.",
      "A tutorial about growing tomatoes.",
      "Ten Best Casino offers: a guide to online betting.",
      "Visit the CASINO tonight.",
      "Stop by the Sussex fair.",
      "Cooking classes in Essex: how to bake bread.",
      "TUTORIAL: Learning To Bake",
      "Download the cracked game here, free torrent." }

ModUrls ==
    { "https://acme.org/", "https://acme.org/my-great-article",
      "https://acme.org/download-manager", "https://acme.org/Monkey-Business" }

ModConfidences == { Confidence(50), Confidence(80), Confidence(81), Confidence(95), NoConfidence }

ModViolationElements ==
    { Violation("Gambling", "bet now", c) : c \in ModConfidences } \cup { NullElement }

RECURSIVE SeqsUpTo(_, _)
SeqsUpTo(S, n) ==
    IF n = 0 THEN { << >> }
    ELSE LET shorter == SeqsUpTo(S, n - 1)
         IN  shorter \cup { Append(q, x) : q \in { r \in shorter : Len(r) = n - 1 }, x \in S }

ModSummaries ==
    { JsUndefined, JsString("No clear violations found"),
      JsString("Policy violation: gambling promotion"), JsNumber(7) }

ModSuggestions ==
    { JsUndefined, JsArray(<< >>), JsArray(<< "Remove gambling content" >>),
      JsString("Rewrite the introduction"), JsNumber(3) }

ModReplies ==
    { ThrowReply, EmptyReply, TextReply, BadJsonReply }
    \cup { JsonReply("array", vs, su, sg) :
             vs \in SeqsUpTo(ModViolationElements, MaxReported),
             su \in ModSummaries, sg \in ModSuggestions }
    \cup { JsonReply(vt, << >>, su, sg) :
             vt \in { "undefined", "string", "object" },
             su \in ModSummaries, sg \in ModSuggestions }

ModInit ==
    /\ modText \in ModTexts
    /\ modUrl \in ModUrls
    /\ modConfigured \in BOOLEAN
    /\ modPc = "start"
    /\ modCalls = 0
    /\ modReply = ThrowReply
    /\ modVerdict = ErrorVerdict

\* route.ts:378-390: the pre-filter, then the call (which throws at once into the
\* catch of 501 when openai is null).
ModPreFilter ==
    /\ modPc = "start"
    /\ IF PreFilteredSafe(modText, modUrl)
       THEN /\ modPc' = "returned"
            /\ modVerdict' = SafeVerdict
            /\ UNCHANGED modCalls
       ELSE IF ~modConfigured
       THEN /\ modPc' = "returned"
            /\ modVerdict' = ErrorVerdict
            /\ UNCHANGED modCalls
       ELSE /\ modPc' = "calling"
            /\ modCalls' = modCalls + 1
            /\ UNCHANGED modVerdict
    /\ UNCHANGED << modText, modUrl, modConfigured, modReply >>

\* route.ts:390-508: the external call returns or rejects.
ModReply ==
    /\ modPc = "calling"
    /\ \E reply \in ModReplies :
          /\ modReply' = reply
          /\ modVerdict' = ProcessReply(reply)
    /\ modPc' = "returned"
    /\ UNCHANGED << modText, modUrl, modConfigured, modCalls >>

ModIdle ==
    /\ modText = ""
    /\ modUrl = ""
    /\ modConfigured = FALSE
    /\ modPc = "idle"
    /\ modCalls = 0
    /\ modReply = ThrowReply
    /\ modVerdict = ErrorVerdict

-----------------------------------------------------------------------------
(* A fetched page, as the results of the cheerio queries the code makes on *)
(* it (HTML parsing itself is a library):                                  *)
(*   anchors      $("a[href]") in document order, each {href, text}        *)
(*   title        $("title").text()                                        *)
(*   h1           $("h1").first().text()                                   *)
(*   h1Count, h2Count, h3Count   $("h1").length, ...                       *)
(*   metaCount    $("meta[name='description']").length                     *)
(*   metaDesc     $("meta[name='description']").attr("content") || ""      *)
(*   contentText  $("main, article, ..., .post-body, body").text()         *)
(*   mainText     $("main, article, ..., .post-body").text()               *)
(*   bodyText     $("body").text()                                         *)
(*   adElements   the number of ad elements of route.ts:361                *)
(* fetchHTML (route.ts:23-43) returns such a page, or "" on any error; the *)
(* model writes the latter as a result that is not ok.                     *)

EmptyPage ==
    [ anchors |-> << >>, title |-> "", h1 |-> "", h1Count |-> 0, h2Count |-> 0,
      h3Count |-> 0, metaCount |-> 0, metaDesc |-> "", contentText |-> "",
      mainText |-> "", bodyText |-> "", adElements |-> 0 ]

FetchFailed == [ ok |-> FALSE, page |-> EmptyPage ]
Fetched(page) == [ ok |-> TRUE, page |-> page ]

Whitespace == { " ", "\n", "\t", "\r" }

\* route.ts:13
MAX_PAGES == 500
\* route.ts:16
MIN_CONTENT_WORDS == 300
\* route.ts:15
REQUIRED_PAGES == << "about", "contact", "privacy", "terms", "disclaimer" >>
\* route.ts:538: allLinks.slice(0, 20)
SeedLimit == 20
\* route.ts:600
concurrency == 12
\* route.ts:636: fullContext.length < 200
MinContextLength == 200
\* route.ts:254: minLength > 100
MinCompareLength == 100
\* route.ts:362: adElements > 10
AdElementLimit == 10

\* The elements of xs without repetition, each at the place of its first
\* occurrence: the order in which a Set keeps what is added to it.
Unique(xs) ==
    LET First(i) == \A j \in 1..(i - 1) : xs[j] # xs[i]
        kept == SelectSeq([ i \in 1..Len(xs) |-> i ], First)
    IN  [ n \in 1..Len(kept) |-> xs[kept[n]] ]

\* The Set xs after ys.forEach(y => xs.add(y)).
SetAddAll(xs, ys) == Unique(xs \o ys)

-----------------------------------------------------------------------------
(* extractLinks, route.ts:45-72.                                           *)

\* href begins with a scheme ("letters:") other than http and https.
HasOtherScheme(href) ==
    LET colon == FirstOf(href, {":"}, 1)
        stop  == FirstOf(href, {"/", "?", "#"}, 1)
    IN  /\ colon > 1
        /\ colon < stop
        /\ colon <= Len(href)
        /\ ToLowerCase(SubSeq(href, 1, colon)) \notin { "http:", "https:" }

IsAbsoluteHttp(href) ==
    \/ StartsWith(ToLowerCase(href), "http://")
    \/ StartsWith(ToLowerCase(href), "https://")

\* The absolute form of href against the parsed base URL: href itself, or the
\* base's scheme, origin or directory followed by href.
AbsoluteForm(href, base) ==
    LET origin == base.protocol \o "//" \o base.host
        slash  == CHOOSE i \in 0..Len(base.pathname) :
                      /\ i = 0 \/ CharAt(base.pathname, i) = "/"
                      /\ \A j \in (i + 1)..Len(base.pathname) :
                             CharAt(base.pathname, j) # "/"
    IN  IF IsAbsoluteHttp(href) THEN href
        ELSE IF StartsWith(href, "//") THEN base.protocol \o href
        ELSE IF StartsWith(href, "/") THEN origin \o href
        ELSE origin \o SubSeq(base.pathname, 1, slash) \o href

Resolved(href, parsed) ==
    IF HasOtherScheme(href)
    THEN [ ok |-> TRUE, href |-> href, hostname |-> "" ]
    ELSE [ ok |-> parsed.hostname # "", href |-> parsed.href,
           hostname |-> parsed.hostname ]

ResolveAgainst(href, base) ==
    Resolved(href, ParseUrl(AbsoluteForm(href, base)))

\* new URL(href, baseUrl): ok is false where the constructor throws (an http(s)
\* URL with no host); hostname is "" for the other schemes.
ResolveUrl(href, baseUrl) ==
    ResolveAgainst(href, ParseUrl(baseUrl))

AssetExtensions ==
    { "jpg", "jpeg", "png", "gif", "svg", "pdf", "zip", "mp4", "mp3", "ico", "css", "js" }

\* route.ts:59-61: full.match(/\.(jpg|jpeg|...|js)$/i)
IsAssetUrl(full) ==
    LET lower == ToLowerCase(full)
    IN  \E e \in AssetExtensions : EndsWith(lower, "." \o e)

\* route.ts:56-66: the link of a resolved href, as a sequence of 0 or 1 URLs.
LinkOfResolved(r, baseHost) ==
    IF /\ r.ok
       /\ r.hostname = baseHost
       /\ ~IsAssetUrl(r.href)
       /\ ~Includes(r.href, "?replytocom=")
    THEN << r.href >>
    ELSE << >>

\* route.ts:52-67: the link an anchor contributes, as a sequence of 0 or 1 URLs.
LinkOfAnchor(href, baseUrl, baseHost) ==
    IF href = "" \/ StartsWith(href, "#") \/ StartsWith(href, "mailto:") THEN << >>
    ELSE LinkOfResolved(ResolveUrl(href, baseUrl), baseHost)

\* route.ts:50-70: the links of the anchors, in document order, in a Set.
extractLinks(page, baseUrl) ==
    LET baseHost == ParseUrl(baseUrl).hostname
        links == [ i \in 1..Len(page.anchors) |->
                     LinkOfAnchor(page.anchors[i].href, baseUrl, baseHost) ]
        Linked(i) == links[i] # << >>
        kept == SelectSeq([ i \in 1..Len(page.anchors) |-> i ], Linked)
    IN  Unique([ n \in 1..Len(kept) |-> links[kept[n]][1] ])

-----------------------------------------------------------------------------
(* checkRequiredPages, route.ts:155-164.                                   *)

RequiredPageFound(allLinks, page) ==
    \E i \in 1..Len(allLinks) : Includes(ToLowerCase(allLinks[i]), page)

checkRequiredPages(allLinks) ==
    [ found   |-> SelectSeq(REQUIRED_PAGES, LAMBDA p : RequiredPageFound(allLinks, p)),
      missing |-> SelectSeq(REQUIRED_PAGES, LAMBDA p : ~RequiredPageFound(allLinks, p)) ]

-----------------------------------------------------------------------------
(* analyzeContentQuality, route.ts:219-244.                                *)

\* s.trim().split(/\s+/).length: the number of words, and 1 for a blank text.
WordCount(s) ==
    LET starts == { i \in 1..Len(s) :
                      /\ CharAt(s, i) \notin Whitespace
                      /\ i = 1 \/ CharAt(s, i - 1) \in Whitespace }
    IN  IF starts = {} THEN 1 ELSE Cardinality(starts)

analyzeContentQuality(page) ==
    LET wordCount == WordCount(page.contentText)
        proper    == page.h1Count > 0 /\ (page.h2Count > 0 \/ page.h3Count > 0)
        thin      == IF wordCount < MIN_CONTENT_WORDS
                     THEN << "Thin content (" \o ToString(wordCount) \o " words < "
                             \o ToString(MIN_CONTENT_WORDS) \o ")" >>
                     ELSE << >>
        headings  == IF proper THEN << >>
                     ELSE << "Missing proper heading hierarchy (H1, H2, H3)" >>
    IN  [ issues |-> thin \o headings, wordCount |-> wordCount,
          hasProperHeadings |-> proper ]

-----------------------------------------------------------------------------
(* checkForDuplicateContent, route.ts:247-267.                             *)

\* s.replace(/\s+/g, ' '): each run of whitespace becomes one space.
RECURSIVE CollapseWhitespace(_, _, _)
CollapseWhitespace(s, lo, hi) ==
    IF lo > hi THEN ""
    ELSE IF lo = hi
    THEN IF CharAt(s, lo) \notin Whitespace THEN CharAt(s, lo)
         ELSE IF lo > 1 /\ CharAt(s, lo - 1) \in Whitespace THEN "" ELSE " "
    ELSE LET m == (lo + hi) \div 2
         IN  CollapseWhitespace(s, lo, m) \o CollapseWhitespace(s, m + 1, hi)

ReplaceWhitespace(s) == CollapseWhitespace(s, 1, Len(s))

\* s.trim()
Trim(s) ==
    LET Blank(i) == CharAt(s, i) \in Whitespace
        n == Len(s)
    IN  IF \A i \in 1..n : Blank(i) THEN ""
        ELSE SubSeq(s,
                    CHOOSE i \in 1..n : ~Blank(i) /\ \A j \in 1..(i - 1) : Blank(j),
                    n - (CHOOSE k \in 0..(n - 1) :
                            ~Blank(n - k) /\ \A j \in 0..(k - 1) : Blank(n - j)))

\* content.toLowerCase().replace(/\s+/g, ' ').trim()
NormalizeContent(s) == Trim(ReplaceWhitespace(ToLowerCase(s)))

Min(a, b) == IF a <= b THEN a ELSE b
Max(a, b) == IF a >= b THEN a ELSE b

\* A variant of SimilarTo that also compares texts of exactly 100 characters.
SimilarTo_Inclusive(normalizedContent, normalizedExisting) ==
    LET minLength == Min(Len(normalizedContent), Len(normalizedExisting))
        matches   == Cardinality({ i \in 1..minLength :
                        CharAt(normalizedContent, i) = CharAt(normalizedExisting, i) })
    IN  minLength >= MinCompareLength /\ matches * 10 > minLength * 8

\* route.ts:253-263, for one prior text: matches / minLength > 0.8
SimilarTo(normalizedContent, normalizedExisting) ==
    LET minLength == Min(Len(normalizedContent), Len(normalizedExisting))
        matches   == Cardinality({ i \in 1..minLength :
                        CharAt(normalizedContent, i) = CharAt(normalizedExisting, i) })
    IN  minLength > MinCompareLength /\ matches * 10 > minLength * 8

\* A variant of checkForDuplicateContent that does not see the text appended
\* last, as when the append of another task is not yet visible to the check.
checkForDuplicateContent_IgnoresLast(content, existingContent) ==
    LET normalizedContent == NormalizeContent(content)
    IN  \E n \in 1..(Len(existingContent) - 1) :
            SimilarTo(normalizedContent, NormalizeContent(existingContent[n]))

checkForDuplicateContent(content, existingContent) ==
    LET normalizedContent == NormalizeContent(content)
    IN  \E n \in 1..Len(existingContent) :
            SimilarTo(normalizedContent, NormalizeContent(existingContent[n]))

-----------------------------------------------------------------------------
(* detectClearViolations, route.ts:270-373.                                *)

\* route.ts:275-295.
clearViolationPhrases ==
    << "cracked software", "torrent download", "get rich quick", "make money fast",
       "win money online", "hack tool", "keygen", "serial number crack", "activation key crack",
       "click here to win", "amazing offer", "limited time", "only today", "act now",
       "fake review", "automated content", "cloaked content", "doorway page", "excessive ads" >>

RECURSIVE Flatten(_)
Flatten(seqs) ==
    IF seqs = << >> THEN << >>
    ELSE IF Len(seqs) = 1 THEN seqs[1]
    ELSE LET half == Len(seqs) \div 2
         IN  Flatten(SubSeq(seqs, 1, half)) \o Flatten(SubSeq(seqs, half + 1, Len(seqs)))

\* xs.join(sep), for a list of strings.
RECURSIVE Join(_, _)
Join(xs, sep) ==
    IF xs = << >> THEN ""
    ELSE IF Len(xs) = 1 THEN xs[1]
    ELSE xs[1] \o sep \o Join(Tail(xs), sep)

\* route.ts:297-307
PhraseViolations(page) ==
    LET pageText == ToLowerCase(page.bodyText)
    IN  Flatten([ n \in 1..Len(clearViolationPhrases) |->
            IF Includes(pageText, clearViolationPhrases[n])
            THEN << Violation("Misleading",
                       "Clear violation phrase found: \"" \o clearViolationPhrases[n] \o "\"",
                       Confidence(95)) >>
            ELSE << >> ])

\* route.ts:310-315: an anchor matches the n-th selector.
MatchesIllegalDownloadSelector(a, n) ==
    CASE n = 1 -> Includes(a.href, "crack")
      [] n = 2 -> Includes(a.href, "torrent")
      [] n = 3 -> Includes(a.text, "Cracked")
      [] OTHER -> Includes(a.text, "Torrent")

\* route.ts:324-325
IsIllegalDownloadText(text) ==
    /\ Includes(text, "crack") \/ Includes(text, "torrent")
    /\ Includes(text, "software") \/ Includes(text, "game") \/ Includes(text, "movie")

\* route.ts:317-334
IllegalDownloadViolations(page) ==
    Flatten([ n \in 1..4 |->
        Flatten([ i \in 1..Len(page.anchors) |->
            LET a    == page.anchors[i]
                text == ToLowerCase(a.text)
            IN  IF MatchesIllegalDownloadSelector(a, n) /\ IsIllegalDownloadText(text)
                THEN << Violation("Copyright",
                           "Illegal download link: " \o text \o " (" \o a.href \o ")",
                           Confidence(90)) >>
                ELSE << >> ]) ])

\* route.ts:337-342
affiliateSelectors ==
    << "amazon.com/dp/", "amazon.com/exec/", "clickbank.net/", "shareasale.com/" >>

\* route.ts:348-349
HasDisclosure(page) ==
    LET bodyText == ToLowerCase(page.bodyText)
    IN  \/ Includes(bodyText, "affiliate")
        \/ Includes(bodyText, "sponsored")
        \/ Includes(bodyText, "ad")
        \/ Includes(bodyText, "disclosure")

\* route.ts:343-358
AffiliateViolations(page) ==
    IF HasDisclosure(page) THEN << >>
    ELSE Flatten([ n \in 1..Len(affiliateSelectors) |->
            Flatten([ i \in 1..Len(page.anchors) |->
                IF Includes(page.anchors[i].href, affiliateSelectors[n])
                THEN << Violation("AffiliateDisclosure",
                           "Affiliate link without disclosure: " \o page.anchors[i].href,
                           Confidence(85)) >>
                ELSE << >> ]) ])

\* route.ts:361-369
AdDensityViolations(page) ==
    IF page.adElements > AdElementLimit
    THEN << Violation("ExcessiveAds",
               "High number of potential ad elements (" \o ToString(page.adElements) \o ")",
               Confidence(80)) >>
    ELSE << >>

detectClearViolations(page) ==
    PhraseViolations(page) \o IllegalDownloadViolations(page)
        \o AffiliateViolations(page) \o AdDensityViolations(page)

-----------------------------------------------------------------------------
(* POST, route.ts:512-805: the pure parts.                                 *)

\* route.ts:572, 579, 633: slice(0, 16000)
ContextLimit == 16000

\* s.slice(0, n)
Slice(s, n) == SubSeq(s, 1, Min(Len(s), n))

\* route.ts:569-579
HomepageContext(page) ==
    Slice("\nTITLE: " \o Trim(page.title) \o "\nH1: " \o Trim(page.h1)
          \o "\nMETA: " \o page.metaDesc
          \o "\nCONTENT: " \o Slice(ReplaceWhitespace(page.bodyText), ContextLimit)
          \o "\n", ContextLimit)

\* route.ts:623-626
PostBodyText(page) == Trim(ReplaceWhitespace(page.mainText))

\* route.ts:620-633
PostContext(page) ==
    Slice("\nTITLE: " \o Trim(page.title) \o "\nH1: " \o Trim(page.h1)
          \o "\nMETA: " \o page.metaDesc
          \o "\nCONTENT: " \o PostBodyText(page)
          \o "\n", ContextLimit)

\* A variant of ClassifiedPosts without the split('#')[0] of 553.
ClassifiedPosts_KeepFragment(frontier) ==
    SetAddAll(<< >>, SelectSeq(frontier, isLikelyPostUrl))

\* route.ts:550-555: the classified posts of the frontier, fragment-stripped and
\* deduplicated, in the order of the frontier.
ClassifiedPosts(frontier) ==
    LET posts == SelectSeq(frontier, isLikelyPostUrl)
    IN  SetAddAll(<< >>, [ i \in 1..Len(posts) |-> BeforeHash(posts[i]) ])

\* How analyzeTextWithAI proceeds for a text (route.ts:381-390): "safe" when the
\* pre-filter short-circuits, "noClient" when openai is null (the call statement
\* throws into the catch of 501), "external" when the classifier is called.
ModerationMode(text, pageUrl, hasClient) ==
    IF PreFilteredSafe(text, pageUrl) THEN "safe"
    ELSE IF ~hasClient THEN "noClient"
    ELSE "external"

\* A variant of CombineViolations that keeps one of two equal violations.
CombineViolations_Merged(ai, clear) ==
    IF Len(clear) > 0
    THEN [ ai EXCEPT !.violations = Unique(ai.violations \o clear),
                     !.summary = IF ai.summary = JsString("Safe content")
                                 THEN JsString("Policy violations detected")
                                 ELSE ai.summary ]
    ELSE ai

\* route.ts:586-593, 665-672: the rule-based violations are appended to the
\* adapter's, and a "Safe content" summary is replaced.
CombineViolations(ai, clear) ==
    IF Len(clear) > 0
    THEN [ ai EXCEPT !.violations = ai.violations \o clear,
                     !.summary = IF ai.summary = JsString("Safe content")
                                 THEN JsString("Policy violations detected")
                                 ELSE ai.summary ]
    ELSE ai

Finding(pageUrl, violations, summary, suggestions, qualityIssues) ==
    [ url |-> pageUrl, violations |-> violations, summary |-> summary,
      suggestions |-> suggestions, qualityIssues |-> qualityIssues ]

\* route.ts:644-653
DuplicateFinding(pageUrl) ==
    Finding(pageUrl,
            << Violation("DuplicateContent",
                  "Content appears to be duplicate or highly similar to other pages",
                  Confidence(90)) >>,
            "Duplicate content detected",
            JsArray(<< "Rewrite content to be unique", "Use canonical tags if necessary" >>),
            << >>)

\* The outcome of a step that may throw: threw with the error's message, or a
\* finding to push (push) or nothing to push.
Threw(message) ==
    [ threw |-> TRUE, message |-> message, push |-> FALSE,
      finding |-> Finding("", << >>, "", JsUndefined, << >>) ]
Pushes(finding) ==
    [ threw |-> FALSE, message |-> "", push |-> TRUE, finding |-> finding ]
PushesNothing ==
    [ threw |-> FALSE, message |-> "", push |-> FALSE,
      finding |-> Finding("", << >>, "", JsUndefined, << >>) ]

\* route.ts:674-722: the rest of a per-post task, from the verdict ai combined
\* with the rule-based violations and the quality postQuality of the page.
\*   678: ai.summary?.toLowerCase() throws a TypeError for a summary that is
\*        neither nullish nor a string;
\*   707: ai.suggestions.join throws a TypeError for suggestions that have a
\*        length above 0 and are not an array (a string).
PostOutcome(pageUrl, ai, postQuality) ==
    LET hasViolations == Len(ai.violations) > 0
        hasSuggestions == HasLength(ai.suggestions) /\ JsLength(ai.suggestions) > 0
        summaryIsText == ai.summary.t = "string"
        hasSummaryViolation ==
            summaryIsText /\ Includes(ToLowerCase(ai.summary.s), "violation")
        hasQualityIssues == Len(postQuality.issues) > 0
        shouldAddToIssues ==
            hasViolations \/ hasSuggestions \/ hasSummaryViolation \/ hasQualityIssues
        firstPart ==
            IF hasSummaryViolation THEN << ai.summary.s >>
            ELSE IF hasViolations
            THEN IF ~Includes(ToLowerCase(ai.summary.s), "no clear violations")
                 THEN << ai.summary.s >>
                 ELSE << ToString(Len(ai.violations)) \o " violation(s) detected." >>
            ELSE IF hasSuggestions
            THEN << "Potential issues found (AI Suggestions: "
                    \o Join(ai.suggestions.a, ", ") \o ")" >>
            ELSE << >>
        qualityPart ==
            IF hasQualityIssues
            THEN << "Quality Issues: " \o Join(postQuality.issues, ", ") >>
            ELSE << >>
    IN  IF Truthy(ai.summary) /\ ~summaryIsText
        THEN Threw("ai.summary?.toLowerCase is not a function")
        ELSE IF ~shouldAddToIssues THEN PushesNothing
        ELSE IF ~hasSummaryViolation /\ ~hasViolations /\ hasSuggestions
                /\ ai.suggestions.t # "array"
        THEN Threw("ai.suggestions.join is not a function")
        ELSE Pushes(Finding(pageUrl, ai.violations, Join(firstPart \o qualityPart, " "),
                            ai.suggestions,
                            IF hasQualityIssues THEN postQuality.issues ELSE << >>))

\* The characters of a string, as the spread of a string gives them.
Characters(s) == [ i \in 1..Len(s) |-> CharAt(s, i) ]

\* route.ts:756: what flatMap adds for p.suggestions || []: the elements of an
\* array, and any other value as one element (written here as its text).
FlatMapped(v) ==
    CASE ~Truthy(v) -> << >>
      [] v.t = "array" -> v.a
      [] v.t = "string" -> << v.s >>
      [] v.t = "number" -> << ToString(v.n) >>
      [] OTHER -> << "[object Object]" >>

NoReport ==
    [ totalViolations |-> 0, found |-> << >>, missing |-> << >>, postCount |-> 0,
      hasMetaTags |-> FALSE, hasGoodHeaders |-> FALSE, structureWarnings |-> << >>,
      totalPostsAnalyzed |-> 0, postsWithQualityIssues |-> 0, pagesWithIssues |-> << >>,
      aiSuggestions |-> << >>, score |-> 0, summary |-> "" ]

NoResponse == [ status |-> 0, error |-> "", message |-> "", report |-> NoReport ]

\* NextResponse.json({ error, message }, { status })
ErrorResponse(status, error, message) ==
    [ status |-> status, error |-> error, message |-> message, report |-> NoReport ]

\* route.ts:803
ScanFailed(message) == ErrorResponse(500, "Scan failed", message)

\* NextResponse.json(result)
ReportResponse(report) ==
    [ status |-> 200, error |-> "", message |-> "", report |-> report ]

RECURSIVE SumViolations(_)
SumViolations(findings) ==
    IF findings = << >> THEN 0
    ELSE Len(Head(findings).violations) + SumViolations(Tail(findings))

\* A variant of Score without the clamp of 752.
Score_Unclamped(totalViolations, missingCount, issueCount, totalPosts, hasMetaTags, hasGoodHeaders) ==
    100 - totalViolations * 5 - missingCount * 5 - issueCount * 2
        - (IF totalPosts < 20 THEN 10 ELSE IF totalPosts < 40 THEN 5 ELSE 0)
        - (IF hasMetaTags THEN 0 ELSE 3)
        - (IF hasGoodHeaders THEN 0 ELSE 3)

\* A variant of Score whose smaller volume deduction applies up to 40 posts.
Score_StrictVolume(totalViolations, missingCount, issueCount, totalPosts, hasMetaTags, hasGoodHeaders) ==
    LET raw == 100 - totalViolations * 5 - missingCount * 5 - issueCount * 2
               - (IF totalPosts < 20 THEN 10 ELSE IF totalPosts <= 40 THEN 5 ELSE 0)
               - (IF hasMetaTags THEN 0 ELSE 3)
               - (IF hasGoodHeaders THEN 0 ELSE 3)
    IN  Max(0, Min(100, raw))

\* route.ts:742-752
Score(totalViolations, missingCount, issueCount, totalPosts, hasMetaTags, hasGoodHeaders) ==
    LET raw == 100 - totalViolations * 5 - missingCount * 5 - issueCount * 2
               - (IF totalPosts < 20 THEN 10 ELSE IF totalPosts < 40 THEN 5 ELSE 0)
               - (IF hasMetaTags THEN 0 ELSE 3)
               - (IF hasGoodHeaders THEN 0 ELSE 3)
    IN  Max(0, Min(100, raw))

\* A variant of ReportSummary that looks at the post count first.
ReportSummary_LowContentFirst(totalViolations, findingCount, totalPosts) ==
    IF totalPosts < 20
    THEN "Low content (" \o ToString(totalPosts) \o " posts)."
    ELSE IF totalViolations > 0
    THEN ToString(totalViolations) \o " violations found across "
         \o ToString(findingCount) \o " posts."
    ELSE "Site appears compliant."

\* route.ts:761-766.  (The compliant summary of the source starts with a check
\* mark, left out here.)
ReportSummary(totalViolations, findingCount, totalPosts) ==
    IF totalViolations > 0
    THEN ToString(totalViolations) \o " violations found across "
         \o ToString(findingCount) \o " posts."
    ELSE IF totalPosts < 20
    THEN "Low content (" \o ToString(totalPosts) \o " posts)."
    ELSE "Site appears compliant."

\* route.ts:730-799: the aggregation, from the required pages and the quality
\* of the homepage, its meta tags and verdict, the posts and the findings; the
\* spread of 755 throws a TypeError for homepage suggestions that are neither an
\* array nor a string.
Report(required, quality, hasMetaTags, homeAI, posts, findings) ==
    LET hasGoodHeaders == quality.hasProperHeadings
        totalPosts == Len(posts)
        totalViolations == SumViolations(findings) + Len(homeAI.violations)
        homeSuggestions ==
            IF homeAI.suggestions.t = "array" THEN homeAI.suggestions.a
            ELSE Characters(homeAI.suggestions.s)
        aiSuggestions ==
            homeSuggestions
            \o Flatten([ i \in 1..Len(findings) |-> FlatMapped(findings[i].suggestions) ])
            \o (IF Len(required.missing) > 0
                THEN << "Add missing pages: " \o Join(required.missing, ", ") >>
                ELSE << >>)
            \o (IF Len(quality.issues) > 0
                THEN << "Fix homepage structure: " \o Join(quality.issues, ", ") >>
                ELSE << >>)
        summary == ReportSummary(totalViolations, Len(findings), totalPosts)
        structureWarnings ==
            (IF hasMetaTags THEN << >> ELSE << "Missing meta description" >>)
            \o (IF hasGoodHeaders THEN << >> ELSE << "Weak header structure" >>)
            \o (IF totalPosts < 40 THEN << "Low content volume" >> ELSE << >>)
            \o [ i \in 1..Len(quality.issues) |-> "Homepage: " \o quality.issues[i] ]
    IN  IF Truthy(homeAI.suggestions) /\ homeAI.suggestions.t \notin { "array", "string" }
        THEN ScanFailed("homepageAI.suggestions is not iterable")
        ELSE ReportResponse(
               [ totalViolations |-> totalViolations,
                 found |-> required.found,
                 missing |-> required.missing,
                 postCount |-> totalPosts,
                 hasMetaTags |-> hasMetaTags,
                 hasGoodHeaders |-> hasGoodHeaders,
                 structureWarnings |-> structureWarnings,
                 totalPostsAnalyzed |-> Len(posts),
                 postsWithQualityIssues |->
                     Cardinality({ i \in 1..Len(findings) :
                                     Len(findings[i].qualityIssues) > 0 }),
                 pagesWithIssues |-> findings,
                 aiSuggestions |-> SubSeq(aiSuggestions, 1, Min(Len(aiSuggestions), 15)),
                 score |-> Score(totalViolations, Len(required.missing),
                                 Len(quality.issues), totalPosts, hasMetaTags,
                                 hasGoodHeaders),
                 summary |-> summary ])

\* route.ts:531-532, 562-566 and 730-799: the response for a scan that got to
\* its end.
Aggregate(home, homeUrl, homeAI, posts, findings) ==
    Report(checkRequiredPages(extractLinks(home, homeUrl)), analyzeContentQuality(home),
           home.metaCount > 0, homeAI, posts, findings)

-----------------------------------------------------------------------------
(* The sites a scan runs against.  A world names a site: what fetchHTML    *)
(* (route.ts:23-43) can return for each of its URLs, the requests made,    *)
(* and the replies of the external classifier.                             *)

Anchor(href, text) == [ href |-> href, text |-> text ]

RECURSIVE Repeated(_, _)
Repeated(s, n) ==
    IF n = 0 THEN ""
    ELSE LET half == Repeated(s, n \div 2)
         IN  half \o half \o (IF n % 2 = 1 THEN s ELSE "")

\* The site "small": a homepage, an about page and three posts, one of them
\* linked from the about page only.
SmallHomeUrl == "https://acme.org/"

SmallHome ==
    [ EmptyPage EXCEPT
        !.anchors = << Anchor("/about", "About"),
                       Anchor("/download-manager", "Download manager"),
                       Anchor("#start", "Start"),
                       Anchor("mailto:hi@acme.org", "Mail"),
                       Anchor("https://other.org/partner-story", "Partner"),
                       Anchor("/logo.png", "Logo"),
                       Anchor("/garden-stories#", "Garden stories") >>,
        !.title = " Acme Garden ", !.h1 = "Acme Garden",
        !.h1Count = 1, !.h2Count = 1, !.metaCount = 1,
        !.metaDesc = "Notes from our plot",
        !.bodyText = "Acme Garden Notes from our plot About "
                     \o "Download manager Start Mail Partner Logo Garden stories",
        !.contentText = "Acme Garden Notes from our plot About "
                        \o "Download manager Start Mail Partner Logo Garden stories",
        !.adElements = 2 ]

SmallAbout ==
    [ EmptyPage EXCEPT
        !.anchors = << Anchor("/contact", "Contact"), Anchor("/", "Home"),
                       Anchor("/my-great-article", "My great article"),
                       Anchor("/my-great-article#comments", "Comments"),
                       Anchor("https://other.org/my-other-article", "Elsewhere"),
                       Anchor("privacy", "Privacy") >>,
        !.title = "About", !.h1 = "About", !.h1Count = 1,
        !.bodyText = "About us Contact Home My great article Comments Elsewhere Privacy",
        !.contentText = "About us Contact Home My great article Comments Elsewhere Privacy" ]

TomatoText ==
    "Tomatoes grow well in warm soil and need plenty of sun.\n  Water them in the "
    \o "morning and pick them when they turn red and feel firm. Save a few seeds for "
    \o "the coming year."

SmallArticle ==
    [ EmptyPage EXCEPT
        !.anchors = << Anchor("/", "Home"), Anchor("/about", "About") >>,
        !.title = "My great article", !.h1 = "My great article", !.h1Count = 1,
        !.mainText = TomatoText,
        !.bodyText = "Home About " \o TomatoText,
        !.contentText = TomatoText \o "Home About " \o TomatoText ]

\* The text of the article, under another title.
SmallMirror ==
    [ EmptyPage EXCEPT
        !.title = "Garden stories", !.h1 = "Garden stories", !.h1Count = 1, !.h2Count = 1,
        !.mainText = TomatoText,
        !.bodyText = "Acme Garden " \o TomatoText,
        !.contentText = TomatoText \o "Acme Garden " \o TomatoText ]

\* The text of the article again, on the page of the download manager.
SmallCopy ==
    [ EmptyPage EXCEPT
        !.title = "Download manager", !.h1 = "Download manager", !.h1Count = 1,
        !.h2Count = 1,
        !.mainText = TomatoText,
        !.bodyText = "Acme Garden " \o TomatoText,
        !.contentText = TomatoText \o "Acme Garden " \o TomatoText ]

DownloadText ==
    "A guide to the download manager for seed catalogues. Limited time offer on the "
    \o "premium plan, only for members of the garden club this spring season."

SmallDownload ==
    [ EmptyPage EXCEPT
        !.title = "Download manager", !.h1 = "Download manager", !.h1Count = 1,
        !.h3Count = 1, !.metaCount = 1, !.metaDesc = "Seed catalogues",
        !.mainText = DownloadText, !.bodyText = DownloadText,
        !.contentText = DownloadText \o DownloadText ]

GardenText == "A guide to our garden. " \o Repeated("p ", 150)

SmallGarden ==
    [ EmptyPage EXCEPT
        !.title = "Garden stories", !.h1 = "Garden stories", !.h1Count = 1,
        !.h2Count = 2, !.metaCount = 1, !.metaDesc = "Stories",
        !.mainText = GardenText, !.bodyText = GardenText,
        !.contentText = GardenText \o GardenText ]

\* What the download manager's URL serves while the page is being written.
SmallShort ==
    [ EmptyPage EXCEPT
        !.title = "Download manager", !.h1 = "Coming soon", !.h1Count = 1,
        !.mainText = "Soon.", !.bodyText = "Soon.", !.contentText = "Soon.Soon." ]

SmallSite(target) ==
    CASE target = SmallHomeUrl -> { Fetched(SmallHome), FetchFailed }
      [] target = "https://acme.org/about" -> { Fetched(SmallAbout) }
      [] target = "https://acme.org/my-great-article" -> { Fetched(SmallArticle) }
      [] target = "https://acme.org/download-manager" ->
            { Fetched(SmallDownload), Fetched(SmallCopy), Fetched(SmallShort), FetchFailed }
      [] target = "https://acme.org/garden-stories" ->
            { Fetched(SmallGarden), Fetched(SmallMirror) }
      [] OTHER -> { FetchFailed }

\* The site "large": a homepage linking to four hubs of HubLinks links each, so
\* that the frontier passes MAX_PAGES while hubs are still being fetched.
HubLinks == 170
HubNames == << "a", "b", "c", "d" >>
LargeHomeUrl == "https://acme.org/"

LargeHome ==
    [ EmptyPage EXCEPT
        !.anchors = [ k \in 1..Len(HubNames) |-> Anchor("/hub-" \o HubNames[k], "Hub") ],
        !.title = "Hubs", !.bodyText = "Hub Hub Hub Hub", !.contentText = "Hub Hub Hub Hub" ]

HubPage(k) ==
    [ EmptyPage EXCEPT
        !.anchors = [ j \in 1..HubLinks |->
                        Anchor("/" \o HubNames[k] \o "/n" \o ToString(j), "n") ] ]

LargeSite(target) ==
    IF target = LargeHomeUrl THEN { Fetched(LargeHome) }
    ELSE IF \E k \in 1..Len(HubNames) : target = "https://acme.org/hub-" \o HubNames[k]
    THEN LET k == CHOOSE k \in 1..Len(HubNames) :
                      target = "https://acme.org/hub-" \o HubNames[k]
         IN  { Fetched(HubPage(k)), FetchFailed }
    ELSE { FetchFailed }

\* The site "crowded": a homepage that alone links to more than MAX_PAGES pages.
CrowdedLinks == 501
CrowdedHomeUrl == "https://acme.org/"

CrowdedHome ==
    [ EmptyPage EXCEPT
        !.anchors = [ j \in 1..CrowdedLinks |-> Anchor("/n/" \o ToString(j), "n") ] ]

CrowdedSite(target) ==
    IF target = CrowdedHomeUrl THEN { Fetched(CrowdedHome) } ELSE { Fetched(EmptyPage) }

\* The site "batched": a homepage that links to an index page, which links to
\* BatchedPosts posts, more than one batch of them.  The fetch of the second post
\* fails, the third and the thirteenth serve release notes with a long
\* description, the others a page too short to analyse.
BatchedPosts == 14
BatchedHomeUrl == "https://acme.org/"
BatchedIndexUrl == "https://acme.org/all"

BatchedPostUrl(n) == "https://acme.org/patch-notes-" \o ToString(n)

BatchedHome ==
    [ EmptyPage EXCEPT
        !.anchors = << Anchor("/all", "All notes") >>,
        !.title = "Acme", !.bodyText = "Acme All notes", !.contentText = "Acme" ]

BatchedIndex ==
    [ EmptyPage EXCEPT
        !.anchors = [ n \in 1..BatchedPosts |->
                        Anchor("/patch-notes-" \o ToString(n), "Notes") ],
        !.title = "All notes", !.bodyText = "All notes", !.contentText = "All notes" ]

BatchedStub == [ EmptyPage EXCEPT !.title = "Notes", !.bodyText = "Soon" ]

\* Its content being thin, the page is reported once it is analysed.
BatchedNotes ==
    [ EmptyPage EXCEPT
        !.title = "Notes", !.h1 = "Notes", !.h1Count = 1, !.metaCount = 1,
        !.metaDesc = "What changed in this version of the Acme planner: the calendar "
                     \o "opens on the current week, the list of beds can be sorted by "
                     \o "name, and the watering plan is printed on one sheet instead of two.",
        !.mainText = "Calendar, beds, printing", !.contentText = "Calendar, beds, printing",
        !.bodyText = "Notes Calendar, beds, printing" ]

BatchedSite(target) ==
    CASE target = BatchedHomeUrl -> { Fetched(BatchedHome) }
      [] target = BatchedIndexUrl -> { Fetched(BatchedIndex) }
      [] target = BatchedPostUrl(2) -> { FetchFailed }
      [] target \in { BatchedPostUrl(3), BatchedPostUrl(13) } -> { Fetched(BatchedNotes) }
      [] OTHER -> { Fetched(BatchedStub) }

\* The site "flagged": a seed shop whose homepage and two posts carry phrases
\* of clearViolationPhrases.  The homepage is served with or without a word
\* of safeKeywords; the text of the sale has none, the text of the guide has one.
FlaggedHomeUrl == "https://acme.org/"
FlaggedSaleUrl == "https://acme.org/spring-sale"
FlaggedGuideUrl == "https://acme.org/garden-guide"

FlaggedAnchors ==
    << Anchor("/spring-sale", "Spring sale"), Anchor("/garden-guide", "Sowing") >>

FlaggedHome ==
    [ EmptyPage EXCEPT
        !.anchors = FlaggedAnchors,
        !.title = "Acme Seeds", !.h1 = "Acme Seeds", !.h1Count = 1, !.metaCount = 1,
        !.metaDesc = "Seeds",
        !.bodyText = "Acme Seeds Limited time offer on all seeds Spring sale Sowing",
        !.contentText = "Acme Seeds Limited time offer on all seeds Spring sale Sowing" ]

FlaggedTutorialHome ==
    [ FlaggedHome EXCEPT
        !.bodyText = "Acme Seeds Limited time offer on all seeds and a sowing tutorial "
                     \o "Spring sale Sowing",
        !.contentText = "Acme Seeds Limited time offer on all seeds and a sowing tutorial "
                        \o "Spring sale Sowing" ]

SaleText ==
    "Limited time: every packet of bean, pea and pumpkin seed is half the price until "
    \o "the end of the month. Act now and have the packets sent to your door before the "
    \o "planting season begins in earnest."

FlaggedSale ==
    [ EmptyPage EXCEPT
        !.title = "Spring sale", !.h1 = "Spring sale", !.h1Count = 1, !.h2Count = 1,
        !.mainText = SaleText, !.bodyText = SaleText, !.contentText = SaleText ]

SowingText ==
    "A guide to sowing in rows: draw a line with a stick, drop a seed every hand, cover "
    \o "and press the soil. Only today the seed drill is sold with a second wheel, "
    \o "so that the rows stay even on a slope."

FlaggedGuide ==
    [ EmptyPage EXCEPT
        !.title = "Sowing", !.h1 = "Sowing", !.h1Count = 1, !.h2Count = 1,
        !.mainText = SowingText, !.bodyText = SowingText, !.contentText = SowingText ]

FlaggedSite(target) ==
    CASE target = FlaggedHomeUrl -> { Fetched(FlaggedHome), Fetched(FlaggedTutorialHome) }
      [] target = FlaggedSaleUrl -> { Fetched(FlaggedSale) }
      [] target = FlaggedGuideUrl -> { Fetched(FlaggedGuide) }
      [] OTHER -> { FetchFailed }

\* The site "twins": a homepage and three posts, two of which have nearly the
\* same text; the first of the two ends with two phrases of
\* clearViolationPhrases, the second does not.  Every page is served as it is,
\* and the classifier finds nothing on any.
TwinsHomeUrl == "https://acme.org/"
TwinsFirstUrl == "https://acme.org/sowing-beans"
TwinsSecondUrl == "https://acme.org/sowing-beans-again"
TwinsOtherUrl == "https://acme.org/sowing-peas"

TwinsHome ==
    [ EmptyPage EXCEPT
        !.anchors = << Anchor("/sowing-beans", "Beans"),
                       Anchor("/sowing-beans-again", "Beans again"),
                       Anchor("/sowing-peas", "Peas") >>,
        !.title = "Acme Sowing", !.h1 = "Acme Sowing", !.h1Count = 1, !.metaCount = 1,
        !.metaDesc = "Sowing",
        !.bodyText = "Acme Sowing Beans Beans again Peas",
        !.contentText = "Acme Sowing Beans Beans again Peas" ]

BeansText ==
    "Beans want a warm bed and a pole to climb. Push each seed a thumb deep, water the "
    \o "row at dusk and keep the snails away until the first leaves have opened fully. "

TwinsFirst ==
    [ EmptyPage EXCEPT
        !.title = "Beans", !.h1 = "Beans", !.h1Count = 1, !.h2Count = 1,
        !.mainText = BeansText \o "Act now, for a limited time.",
        !.bodyText = BeansText \o "Act now, for a limited time.",
        !.contentText = BeansText \o "Act now, for a limited time." ]

TwinsSecond ==
    [ EmptyPage EXCEPT
        !.title = "Beans again", !.h1 = "Beans again", !.h1Count = 1, !.h2Count = 1,
        !.mainText = BeansText \o "Pick them young and often.",
        !.bodyText = BeansText \o "Pick them young and often.",
        !.contentText = BeansText \o "Pick them young and often." ]

PeasText ==
    "Sow peas as soon as the frost has left the soil, two fingers apart along a net. "
    \o "They climb by themselves, they like cool weather, and they are done before the "
    \o "summer heat arrives."

TwinsOther ==
    [ EmptyPage EXCEPT
        !.title = "Peas", !.h1 = "Peas", !.h1Count = 1, !.h2Count = 1,
        !.mainText = PeasText, !.bodyText = PeasText, !.contentText = PeasText ]

TwinsSite(target) ==
    CASE target = TwinsHomeUrl -> { Fetched(TwinsHome) }
      [] target = TwinsFirstUrl -> { Fetched(TwinsFirst) }
      [] target = TwinsSecondUrl -> { Fetched(TwinsSecond) }
      [] target = TwinsOtherUrl -> { Fetched(TwinsOther) }
      [] OTHER -> { FetchFailed }

\* fetchHTML(u), route.ts:23-43: the HTTP client drops the fragment of u.
FetchOutcomes(w, u) ==
    CASE w = "small" -> SmallSite(BeforeHash(u))
      [] w = "large" -> LargeSite(BeforeHash(u))
      [] w = "crowded" -> CrowdedSite(BeforeHash(u))
      [] w = "batched" -> BatchedSite(BeforeHash(u))
      [] w = "flagged" -> FlaggedSite(BeforeHash(u))
      [] w = "twins" -> TwinsSite(BeforeHash(u))
      [] OTHER -> { FetchFailed }

\* route.ts:517: the body of the request: not JSON (req.json() rejects), JSON
\* without a url, or JSON with a url.
Request(kind, target) == [ kind |-> kind, url |-> target ]

Requests(w) ==
    CASE w = "small" -> { Request("malformed", ""), Request("json", ""),
                          Request("json", "not a url"), Request("json", SmallHomeUrl) }
      [] w = "large" -> { Request("json", LargeHomeUrl) }
      [] w = "crowded" -> { Request("json", CrowdedHomeUrl) }
      [] w = "batched" -> { Request("json", BatchedHomeUrl) }
      [] w = "flagged" -> { Request("json", FlaggedHomeUrl) }
      [] w = "twins" -> { Request("json", TwinsHomeUrl) }
      [] OTHER -> { }

\* Replies of the classifier during a scan.
CleanReply ==
    JsonReply("array", << >>, JsString("No clear violations found"), JsArray(<< >>))
ViolationReply ==
    JsonReply("array",
              << Violation("Gambling", "bet now", Confidence(95)),
                 Violation("Adult", "maybe", Confidence(80)) >>,
              JsString("Policy violation: gambling promotion"),
              JsArray(<< "Remove gambling content" >>))
\* A reply that reports what the phrase rule of route.ts:297-307 reports for
\* "limited time", word for word.
EchoReply ==
    JsonReply("array",
              << Violation("Misleading", "Clear violation phrase found: \"limited time\"",
                           Confidence(95)) >>,
              JsString("Policy violation: misleading offer"),
              JsArray(<< >>))
SuggestionsReply ==
    JsonReply("array", << >>, JsString("Looks fine"), JsArray(<< "Add sources", "Add photos" >>))
MissingFieldsReply == JsonReply("undefined", << >>, JsUndefined, JsUndefined)
StringSuggestionsReply ==
    JsonReply("array", << >>, JsUndefined, JsString("Rewrite the introduction"))
NumberSuggestionsReply ==
    JsonReply("string", << >>, JsString("Looks fine"), JsNumber(3))
NumberSummaryReply ==
    JsonReply("array", << >>, JsNumber(7), JsArray(<< >>))

ScanReplies(w, u) ==
    IF w = "flagged" THEN { CleanReply, ViolationReply, EchoReply }
    ELSE IF w # "small" THEN { CleanReply }
    ELSE IF u = SmallHomeUrl
    THEN { CleanReply, ViolationReply, NumberSuggestionsReply }
    ELSE IF u = "https://acme.org/download-manager"
    THEN { CleanReply, ViolationReply }
    ELSE IF u = "https://acme.org/garden-stories"
    THEN { CleanReply }
    ELSE { ThrowReply, EmptyReply, TextReply, BadJsonReply, CleanReply, ViolationReply,
           SuggestionsReply, MissingFieldsReply, StringSuggestionsReply,
           NumberSummaryReply }

-----------------------------------------------------------------------------
(* POST, route.ts:512-805, as a state machine.  An action is the code that *)
(* runs between two awaits.                                                *)
(*   world, configured   the site scanned; whether openai is non-null      *)
(*   pc                  where the handler is: "request", "fetchHome",     *)
(*                       "crawl", "homeAI", "batch", "done"                *)
(*   url, response       the url of the request; the response sent         *)
(*   homepage            the result of the homepage fetch                  *)
(*   crawled, crawlTasks the frontier (a Set, in insertion order) and the  *)
(*                       expansion tasks of 538-543; a task is "fetching", *)
(*                       "failed" (its fetch returned "") or "done"        *)
(*   uniquePosts         the posts to scan                                 *)
(*   homeMode, homepageAI   the homepage's moderation                      *)
(*   homeRetained        the violations analyzeTextWithAI returned for it  *)
(*   batchStart, postTasks  the current batch of per-post tasks            *)
(*   allContentHashes, pagesWithIssues   as in the source                  *)
(*   calls               how many times each function has been called      *)

VARIABLES world, configured, pc, url, response, homepage, crawled, crawlTasks,
          uniquePosts, homeMode, homepageAI, homeRetained, batchStart, postTasks,
          allContentHashes, pagesWithIssues, calls

scanVars ==
    << world, configured, pc, url, response, homepage, crawled, crawlTasks,
       uniquePosts, homeMode, homepageAI, homeRetained, batchStart, postTasks,
       allContentHashes, pagesWithIssues, calls >>

\* The constant homepage of route.ts:525: not yet assigned, "" or HTML.
HomepageUnset == [ st |-> "unset", page |-> EmptyPage ]
HomepageOf(result) ==
    [ st |-> IF result.ok THEN "html" ELSE "empty", page |-> result.page ]

NoCalls ==
    [ fetchHTML |-> 0, extractLinks |-> 0, checkRequiredPages |-> 0,
      isLikelyPostUrl |-> 0, analyzeTextWithAI |-> 0, classifier |-> 0 ]

\* One call of analyzeTextWithAI that proceeds in the given mode.
CountModeration(c, mode) ==
    [ c EXCEPT !.analyzeTextWithAI = @ + 1,
               !.classifier = @ + (IF mode = "external" THEN 1 ELSE 0) ]

\* The verdicts analyzeTextWithAI can return for a page, by the mode.
Verdicts(w, mode, pageUrl) ==
    CASE mode = "safe" -> { SafeVerdict }
      [] mode = "noClient" -> { ErrorVerdict }
      [] OTHER -> { ProcessReply(reply) : reply \in ScanReplies(w, pageUrl) }

ScanStart(worlds) ==
    /\ world \in worlds
    /\ configured \in BOOLEAN
    /\ pc = "request"
    /\ url = ""
    /\ response = NoResponse
    /\ homepage = HomepageUnset
    /\ crawled = << >>
    /\ crawlTasks = << >>
    /\ uniquePosts = << >>
    /\ homeMode = ""
    /\ homepageAI = SafeVerdict
    /\ homeRetained = << >>
    /\ batchStart = 0
    /\ postTasks = << >>
    /\ allContentHashes = << >>
    /\ pagesWithIssues = << >>
    /\ calls = NoCalls

ScanIdle ==
    /\ world = "none"
    /\ configured = FALSE
    /\ pc = "idle"
    /\ url = ""
    /\ response = NoResponse
    /\ homepage = HomepageUnset
    /\ crawled = << >>
    /\ crawlTasks = << >>
    /\ uniquePosts = << >>
    /\ homeMode = ""
    /\ homepageAI = SafeVerdict
    /\ homeRetained = << >>
    /\ batchStart = 0
    /\ postTasks = << >>
    /\ allContentHashes = << >>
    /\ pagesWithIssues = << >>
    /\ calls = NoCalls

\* route.ts:516-525: the body is read; a body that is not JSON goes to the catch
\* of 800, a missing url gives 400, otherwise the homepage fetch starts.
ReceiveRequest ==
    /\ pc = "request"
    /\ \E req \in Requests(world) :
          IF req.kind = "malformed"
          THEN /\ response' = ScanFailed("Unexpected end of JSON input")
               /\ pc' = "done"
               /\ UNCHANGED << url, calls >>
          ELSE IF req.url = ""
          THEN /\ response' = ErrorResponse(400, "URL required", "")
               /\ pc' = "done"
               /\ UNCHANGED << url, calls >>
          ELSE /\ url' = req.url
               /\ pc' = "fetchHome"
               /\ calls' = [ calls EXCEPT !.fetchHTML = @ + 1 ]
               /\ UNCHANGED response
    /\ UNCHANGED << world, configured, homepage, crawled, crawlTasks, uniquePosts,
                    homeMode, homepageAI, homeRetained, batchStart, postTasks, allContentHashes,
                    pagesWithIssues >>

\* route.ts:531-543 for the links allLinks of the homepage: the frontier and
\* the expansion tasks.  Each task tests crawled.size > MAX_PAGES (539) when it is
\* created, before any fetch has returned, and then starts its fetch.
StartCrawl(allLinks) ==
    LET seeds    == SubSeq(allLinks, 1, Min(Len(allLinks), SeedLimit))
        overBudget == Len(allLinks) > MAX_PAGES
    IN  /\ crawled' = allLinks
        /\ crawlTasks' = [ i \in 1..Len(seeds) |->
                             [ link |-> seeds[i],
                               st |-> IF overBudget THEN "done" ELSE "fetching" ] ]
        /\ calls' = [ calls EXCEPT !.extractLinks = @ + 1,
                                   !.checkRequiredPages = @ + 1,
                                   !.fetchHTML = @ + (IF overBudget THEN 0 ELSE Len(seeds)) ]
        /\ pc' = "crawl"
        /\ UNCHANGED response

\* A variant of HomeFetched without the test of 526: a failed fetch is scanned
\* as an empty page.
HomeFetched_Unchecked ==
    /\ pc = "fetchHome"
    /\ \E result \in FetchOutcomes(world, url) :
          /\ homepage' = HomepageOf(result)
          /\ \E allLinks \in { extractLinks(result.page, url) } : StartCrawl(allLinks)
    /\ UNCHANGED << world, configured, url, uniquePosts, homeMode, homepageAI, homeRetained,
                    batchStart, postTasks, allContentHashes, pagesWithIssues >>

\* route.ts:525-543: the homepage fetch returns.
HomeFetched ==
    /\ pc = "fetchHome"
    /\ \E result \in FetchOutcomes(world, url) :
          /\ homepage' = HomepageOf(result)
          /\ IF ~result.ok
             THEN /\ response' = ScanFailed("Failed to fetch homepage")
                  /\ pc' = "done"
                  /\ UNCHANGED << crawled, crawlTasks, calls >>
             ELSE \E allLinks \in { extractLinks(result.page, url) } :
                     StartCrawl(allLinks)
    /\ UNCHANGED << world, configured, url, uniquePosts, homeMode, homepageAI, homeRetained,
                    batchStart, postTasks, allContentHashes, pagesWithIssues >>

\* A variant of CrawlFetched in which a failed expansion fetch fails the scan.
CrawlFetched_FailureAborts(i) ==
    /\ pc = "crawl"
    /\ crawlTasks[i].st = "fetching"
    /\ \E result \in FetchOutcomes(world, crawlTasks[i].link) :
          IF ~result.ok
          THEN /\ crawlTasks' = [ crawlTasks EXCEPT ![i].st = "failed" ]
               /\ response' = ScanFailed("Failed to fetch " \o crawlTasks[i].link)
               /\ pc' = "done"
               /\ UNCHANGED << crawled, calls >>
          ELSE /\ crawlTasks' = [ crawlTasks EXCEPT ![i].st = "done" ]
               /\ crawled' = SetAddAll(crawled, extractLinks(result.page, url))
               /\ calls' = [ calls EXCEPT !.extractLinks = @ + 1 ]
               /\ UNCHANGED << pc, response >>
    /\ UNCHANGED << world, configured, url, homepage, uniquePosts,
                    homeMode, homepageAI, homeRetained, batchStart, postTasks, allContentHashes,
                    pagesWithIssues >>

\* route.ts:540-542: the fetch of expansion task i returns; its links are added
\* to the frontier.
CrawlFetched(i) ==
    /\ pc = "crawl"
    /\ crawlTasks[i].st = "fetching"
    /\ \E result \in FetchOutcomes(world, crawlTasks[i].link) :
          IF ~result.ok
          THEN /\ crawlTasks' = [ crawlTasks EXCEPT ![i].st = "failed" ]
               /\ UNCHANGED << crawled, calls >>
          ELSE /\ crawlTasks' = [ crawlTasks EXCEPT ![i].st = "done" ]
               /\ crawled' = SetAddAll(crawled, extractLinks(result.page, url))
               /\ calls' = [ calls EXCEPT !.extractLinks = @ + 1 ]
    /\ UNCHANGED << world, configured, pc, url, response, homepage, uniquePosts,
                    homeMode, homepageAI, homeRetained, batchStart, postTasks, allContentHashes,
                    pagesWithIssues >>

\* route.ts:546-582: all expansion tasks have returned; the posts are classified
\* and the moderation of the homepage starts.
CrawlJoin ==
    /\ pc = "crawl"
    /\ \A i \in 1..Len(crawlTasks) : crawlTasks[i].st \in { "done", "failed" }
    /\ \E mode \in { ModerationMode(HomepageContext(homepage.page), url, configured) } :
           /\ uniquePosts' = ClassifiedPosts(crawled)
           /\ homeMode' = mode
           /\ calls' = CountModeration(
                          [ calls EXCEPT !.isLikelyPostUrl = @ + Len(crawled) ], mode)
    /\ pc' = "homeAI"
    /\ UNCHANGED << world, configured, url, response, homepage, crawled, crawlTasks,
                    homepageAI, homeRetained, batchStart, postTasks, allContentHashes,
                    pagesWithIssues >>

\* A per-post task (607-722) with its locals: the page fetched, bodyText,
\* the length of fullContext, and how its call of analyzeTextWithAI proceeds.
PostTask(pageUrl) ==
    [ url |-> pageUrl, st |-> "fetching", page |-> EmptyPage, bodyText |-> "",
      contextLength |-> 0, mode |-> "", retained |-> << >> ]

\* route.ts:603-609 and 730-799: the batch that starts at index start (from 1)
\* is created and its fetches start; past the last post the report is built.
RunBatches(start, ai, findings, c) ==
    IF start <= Len(uniquePosts)
    THEN LET n == Min(concurrency, Len(uniquePosts) - start + 1)
         IN  /\ pc' = "batch"
             /\ batchStart' = start
             /\ postTasks' = [ k \in 1..n |-> PostTask(uniquePosts[start + k - 1]) ]
             /\ calls' = [ c EXCEPT !.fetchHTML = @ + n ]
             /\ UNCHANGED response
    ELSE /\ pc' = "done"
         /\ response' = Aggregate(homepage.page, url, ai, uniquePosts, findings)
         /\ calls' = c
         /\ UNCHANGED << batchStart, postTasks >>

\* route.ts:582-609: analyzeTextWithAI returns for the homepage.
HomeModerated ==
    /\ pc = "homeAI"
    /\ \E clear \in { detectClearViolations(homepage.page) } :
       \E verdict \in Verdicts(world, homeMode, url) :
       \E ai \in { CombineViolations(verdict, clear) } :
          /\ homepageAI' = ai
          /\ homeRetained' = verdict.violations
          /\ RunBatches(1, ai, pagesWithIssues, calls)
    /\ UNCHANGED << world, configured, url, homepage, crawled, crawlTasks, uniquePosts,
                    homeMode, allContentHashes, pagesWithIssues >>

\* route.ts:609-659: the fetch of per-post task k returns.
PostFetched(k) ==
    /\ postTasks[k].st = "fetching"
    /\ \E result \in FetchOutcomes(world, postTasks[k].url) :
       \E bodyText \in { PostBodyText(result.page) } :
       \E fullContext \in { PostContext(result.page) } :
          LET mode == ModerationMode(fullContext, postTasks[k].url, configured)
          IN  IF ~result.ok
              THEN /\ postTasks' = [ postTasks EXCEPT ![k].st = "failed" ]
                   /\ UNCHANGED << allContentHashes, pagesWithIssues, calls >>
              ELSE IF Len(fullContext) < MinContextLength
              THEN /\ postTasks' = [ postTasks EXCEPT ![k].st = "done",
                                                      ![k].page = result.page,
                                                      ![k].bodyText = bodyText,
                                                      ![k].contextLength = Len(fullContext) ]
                   /\ UNCHANGED << allContentHashes, pagesWithIssues, calls >>
              ELSE IF checkForDuplicateContent(bodyText, allContentHashes)
              THEN /\ postTasks' = [ postTasks EXCEPT ![k].st = "done",
                                                      ![k].page = result.page,
                                                      ![k].bodyText = bodyText,
                                                      ![k].contextLength = Len(fullContext) ]
                   /\ pagesWithIssues' =
                         Append(pagesWithIssues, DuplicateFinding(postTasks[k].url))
                   /\ UNCHANGED << allContentHashes, calls >>
              ELSE /\ postTasks' = [ postTasks EXCEPT ![k].st = "moderating",
                                                      ![k].page = result.page,
                                                      ![k].bodyText = bodyText,
                                                      ![k].contextLength = Len(fullContext),
                                                      ![k].mode = mode ]
                   /\ allContentHashes' = Append(allContentHashes, bodyText)
                   /\ calls' = CountModeration(calls, mode)
                   /\ UNCHANGED pagesWithIssues
    /\ UNCHANGED << world, configured, pc, url, response, homepage, crawled, crawlTasks,
                    uniquePosts, homeMode, homepageAI, homeRetained, batchStart >>

\* route.ts:659-722: analyzeTextWithAI returns for per-post task k.  A throw
\* rejects the Promise.all of 606, and the first one goes to the catch of 800;
\* the other tasks of the batch run on.
PostModerated(k) ==
    /\ postTasks[k].st = "moderating"
    /\ \E clear \in { detectClearViolations(postTasks[k].page) } :
       \E quality \in { analyzeContentQuality(postTasks[k].page) } :
       \E verdict \in Verdicts(world, postTasks[k].mode, postTasks[k].url) :
       \E outcome \in { PostOutcome(postTasks[k].url,
                                     CombineViolations(verdict, clear), quality) } :
          /\ postTasks' = [ postTasks EXCEPT ![k].st = "done",
                                              ![k].retained = verdict.violations ]
          /\ IF outcome.threw
             THEN /\ IF pc = "batch"
                     THEN /\ response' = ScanFailed(outcome.message)
                          /\ pc' = "done"
                     ELSE UNCHANGED << response, pc >>
                  /\ UNCHANGED pagesWithIssues
             ELSE /\ pagesWithIssues' =
                        IF outcome.push THEN Append(pagesWithIssues, outcome.finding)
                        ELSE pagesWithIssues
                  /\ UNCHANGED << response, pc >>
    /\ UNCHANGED << world, configured, url, homepage, crawled, crawlTasks, uniquePosts,
                    homeMode, homepageAI, homeRetained, batchStart, allContentHashes,
                    calls >>

\* A variant of BatchJoin that starts the next batch as soon as one task of the
\* batch has returned.
BatchJoin_Eager ==
    /\ pc = "batch"
    /\ \E k \in 1..Len(postTasks) : postTasks[k].st \in { "done", "failed" }
    /\ RunBatches(batchStart + concurrency, homepageAI, pagesWithIssues, calls)
    /\ UNCHANGED << world, configured, url, homepage, crawled, crawlTasks, uniquePosts,
                    homeMode, homepageAI, homeRetained, allContentHashes, pagesWithIssues >>

\* route.ts:604-606 and 728-799: every task of the batch has returned; the next
\* batch starts, or the report is built and sent.
BatchJoin ==
    /\ pc = "batch"
    /\ \A k \in 1..Len(postTasks) : postTasks[k].st \in { "done", "failed" }
    /\ RunBatches(batchStart + concurrency, homepageAI, pagesWithIssues, calls)
    /\ UNCHANGED << world, configured, url, homepage, crawled, crawlTasks, uniquePosts,
                    homeMode, homepageAI, homeRetained, allContentHashes, pagesWithIssues >>

-----------------------------------------------------------------------------
(* The pure functions on their own: Init draws the arguments, the action   *)
(* applies the function.                                                   *)
(*   pureArgs     the arguments                                            *)
(*   purePc       "input" | "returned"                                     *)
(*   pureResult   the value returned                                       *)

VARIABLES pureArgs, purePc, pureResult

pureVars == << pureArgs, purePc, pureResult >>

PureIdle ==
    /\ pureArgs = << >>
    /\ purePc = "idle"
    /\ pureResult = << >>

\* The aggregation of route.ts:730-799 on its own.  The longest list of findings:
RepMaxFindings == 2

\* A finding with n violations.
RepFinding(n) ==
    Finding("https://acme.org/my-great-article",
            [ i \in 1..n |-> Violation("Scam", "get rich", Confidence(95)) ],
            "Policy violation", JsArray(<< >>), << >>)

RepFindings == SeqsUpTo({ RepFinding(n) : n \in { 0, 3, 10 } }, RepMaxFindings)

\* A verdict of the homepage with n violations.
RepHomeVerdict(n) ==
    Verdict([ i \in 1..n |-> Violation("Misleading", "amazing offer", Confidence(95)) ],
            JsString("Analysis complete"), JsArray(<< >>))

\* n classified posts.
RepPosts(n) == [ i \in 1..n |-> "https://acme.org/my-great-article-" \o ToString(i) ]

RepPostCounts == { 5, 19, 20, 25, 39, 40 }

\* The required pages when the last n of them are missing.
RepRequired(n) ==
    [ found   |-> SubSeq(REQUIRED_PAGES, 1, Len(REQUIRED_PAGES) - n),
      missing |-> SubSeq(REQUIRED_PAGES, Len(REQUIRED_PAGES) - n + 1, Len(REQUIRED_PAGES)) ]

\* Homepages of 299 and of 300 words, with and without an h1 beside their h2,
\* with and without a meta description.
RepHomes ==
    { [ EmptyPage EXCEPT !.contentText = Repeated("word ", words), !.h1Count = h1,
                         !.h2Count = 1, !.metaCount = meta ] :
        words \in { MIN_CONTENT_WORDS - 1, MIN_CONTENT_WORDS }, h1 \in { 0, 1 },
        meta \in { 0, 1 } }

RepInit ==
    /\ pureArgs \in [ home : RepHomes,
                      required : { RepRequired(n) : n \in { 0, 1, Len(REQUIRED_PAGES) } },
                      homeAI : { RepHomeVerdict(n) : n \in { 0, 1, 2 } },
                      posts : { RepPosts(n) : n \in RepPostCounts },
                      findings : RepFindings ]
    /\ purePc = "input"
    /\ pureResult = NoResponse

\* route.ts:562-566 and 730-799.
RepApply ==
    /\ purePc = "input"
    /\ pureResult' = Report(pureArgs.required, analyzeContentQuality(pureArgs.home),
                            pureArgs.home.metaCount > 0, pureArgs.homeAI,
                            pureArgs.posts, pureArgs.findings)
    /\ purePc' = "returned"
    /\ UNCHANGED pureArgs

\* checkForDuplicateContent on its own.  The longest list of prior texts:
DupMaxPrior == 2

\* Texts of 125 characters that normalise to the same text, one that differs
\* from them at every position, a short text, and texts of exactly 100 and
\* 101 characters.
DupTexts ==
    { Repeated("tomato ", 18),
      "  " \o Repeated("Tomato\n ", 18),
      Repeated("zzzzzzz", 18),
      "tomato soup",
      Repeated("x", MinCompareLength),
      Repeated("x", MinCompareLength + 1) }

DupInit ==
    /\ pureArgs \in [ content : DupTexts, existingContent : SeqsUpTo(DupTexts, DupMaxPrior) ]
    /\ purePc = "input"
    /\ pureResult = FALSE

\* route.ts:247-267.
DupApply ==
    /\ purePc = "input"
    /\ pureResult' = checkForDuplicateContent(pureArgs.content, pureArgs.existingContent)
    /\ purePc' = "returned"
    /\ UNCHANGED pureArgs

-----------------------------------------------------------------------------
(* The specifications.                                                     *)

vars == << clsVars, modVars, scanVars, pureVars >>

\* The classifier on the URLs of its harness.
ClsSpecInit == ClsInit /\ ModIdle /\ ScanIdle /\ PureIdle
ClsNext == ClassifyUrl /\ UNCHANGED << modVars, scanVars, pureVars >>
SpecClassifier == ClsSpecInit /\ [][ClsNext]_vars

\* The moderation adapter on the texts, URLs and replies of its harness.
ModSpecInit == ModInit /\ ClsIdle /\ ScanIdle /\ PureIdle
ModNext ==
    \/ ModPreFilter /\ UNCHANGED << clsVars, scanVars, pureVars >>
    \/ ModReply /\ UNCHANGED << clsVars, scanVars, pureVars >>
SpecModeration == ModSpecInit /\ [][ModNext]_vars

\* A whole scan of the site "small".
Init == ScanStart({ "small" }) /\ ClsIdle /\ ModIdle /\ PureIdle
Next ==
    \/ ReceiveRequest /\ UNCHANGED << clsVars, modVars, pureVars >>
    \/ HomeFetched /\ UNCHANGED << clsVars, modVars, pureVars >>
    \/ (\E i \in 1..Len(crawlTasks) : CrawlFetched(i)) /\ UNCHANGED << clsVars, modVars, pureVars >>
    \/ CrawlJoin /\ UNCHANGED << clsVars, modVars, pureVars >>
    \/ HomeModerated /\ UNCHANGED << clsVars, modVars, pureVars >>
    \/ (\E k \in 1..Len(postTasks) : PostFetched(k)) /\ UNCHANGED << clsVars, modVars, pureVars >>
    \/ (\E k \in 1..Len(postTasks) : PostModerated(k)) /\ UNCHANGED << clsVars, modVars, pureVars >>
    \/ BatchJoin /\ UNCHANGED << clsVars, modVars, pureVars >>
Spec == Init /\ [][Next]_vars

\* The expansion phase on the sites "large" and "crowded".
CrawlInit == ScanStart({ "large", "crowded" }) /\ ClsIdle /\ ModIdle /\ PureIdle
CrawlNext ==
    \/ ReceiveRequest /\ UNCHANGED << clsVars, modVars, pureVars >>
    \/ HomeFetched /\ UNCHANGED << clsVars, modVars, pureVars >>
    \/ (\E i \in 1..Len(crawlTasks) : CrawlFetched(i)) /\ UNCHANGED << clsVars, modVars, pureVars >>
SpecCrawl == CrawlInit /\ [][CrawlNext]_vars

\* A whole scan of the site "twins".
TwinsInit == ScanStart({ "twins" }) /\ ClsIdle /\ ModIdle /\ PureIdle
SpecTwins == TwinsInit /\ [][Next]_vars

\* A whole scan of the site "flagged".
FlaggedInit == ScanStart({ "flagged" }) /\ ClsIdle /\ ModIdle /\ PureIdle
SpecFlagged == FlaggedInit /\ [][Next]_vars

\* A whole scan of the site "batched".
BatchInit == ScanStart({ "batched" }) /\ ClsIdle /\ ModIdle /\ PureIdle
SpecBatch == BatchInit /\ [][Next]_vars

\* The duplicate detector on the texts of its harness.
DupSpecInit == DupInit /\ ClsIdle /\ ModIdle /\ ScanIdle
DupNext == DupApply /\ UNCHANGED << clsVars, modVars, scanVars >>
SpecDuplicate == DupSpecInit /\ [][DupNext]_vars

\* The aggregation on the inputs of its harness.
RepSpecInit == RepInit /\ ClsIdle /\ ModIdle /\ ScanIdle
RepNext == RepApply /\ UNCHANGED << clsVars, modVars, scanVars >>
SpecReport == RepSpecInit /\ [][RepNext]_vars

-----------------------------------------------------------------------------
(* Properties of the classifier, checked under SpecClassifier.             *)

\* The path of the classified URL as the classifier reads it (lower case).
ClsPath == ParseUrl(ToLowerCase(clsUrl)).pathname

ClsSegments == SplitNonEmptyFrom(ClsPath, "/", 1)

\* The URL text carries a fragment identifier: a "#" with something after it.
ClsHasFragment == FirstOf(clsUrl, {"#"}, 1) < Len(clsUrl)

\* The URL passes the fragment rejection of route.ts:85.
ClsPassesFragmentRejection == ParseUrl(ToLowerCase(clsUrl)).hash = ""

\* The final segment's length exceeds 4, it is not purely numeric and it is none
\* of page, category, tag; a path with no segment has no such segment.
ClsQualifyingFinalSegment ==
    /\ Len(ClsSegments) >= 1
    /\ Len(ClsSegments[Len(ClsSegments)]) > 4
    /\ ~IsAllDigits(ClsSegments[Len(ClsSegments)])
    /\ ClsSegments[Len(ClsSegments)] \notin { "page", "category", "tag" }

\* C3: a URL that passes the fragment rejection and whose path contains a
\* tool/download keyword is accepted, whatever else is true of it.
C3_ToolKeywordAccepted ==
    (clsPc = "classified" /\ ClsPassesFragmentRejection /\ HasToolKeyword(ClsPath))
        => clsVerdict = TRUE

\* C3's case: an accepted tool/download URL that also matches a structural
\* pattern and whose final segment is numeric.
C3_Witness ==
    /\ clsPc = "classified"
    /\ ClsPassesFragmentRejection
    /\ HasToolKeyword(ClsPath)
    /\ MatchesPageNumber(ClsPath)
    /\ MatchesCategoryKeyword(ClsPath)
    /\ ~ClsQualifyingFinalSegment
    /\ clsVerdict = TRUE

\* C4: a URL with a fragment identifier is rejected, whatever its path holds.
C4_FragmentRejected ==
    (clsPc = "classified" /\ ClsHasFragment) => clsVerdict = FALSE

\* C4's case: a rejected URL with a fragment whose path holds a tool keyword.
C4_Witness ==
    /\ clsPc = "classified"
    /\ ClsHasFragment
    /\ HasToolKeyword(ClsPath)
    /\ clsVerdict = FALSE

\* C5: a URL whose path matches a structural keyword, /page/<number> or a
\* trailing /feed, and holds no tool/download keyword, is rejected.
C5_StructuralRejected ==
    (clsPc = "classified" /\ MatchesObviousCategory(ClsPath) /\ ~HasToolKeyword(ClsPath))
        => clsVerdict = FALSE

\* C5's case: a rejected structural URL, free of fragment, whose final segment
\* would qualify as a content slug.
C5_Witness ==
    /\ clsPc = "classified"
    /\ ClsPassesFragmentRejection
    /\ MatchesObviousCategory(ClsPath)
    /\ ~HasToolKeyword(ClsPath)
    /\ ClsQualifyingFinalSegment
    /\ clsVerdict = FALSE

\* C6: for a fragment-free URL whose path holds no tool keyword and matches no
\* structural keyword or pattern, the verdict is accept exactly when the final
\* segment qualifies.
C6_FinalSegmentDecides ==
    ( /\ clsPc = "classified"
      /\ ~ClsHasFragment
      /\ ClsPassesFragmentRejection
      /\ ~HasToolKeyword(ClsPath)
      /\ ~MatchesObviousCategory(ClsPath) )
        => (clsVerdict <=> ClsQualifyingFinalSegment)

\* The classified URL with its scheme, host and query replaced.
ClsSamePathUrl(s, h, q) ==
    LET raw == ParseUrl(clsUrl) IN s \o h \o raw.pathname \o q

\* C7: two fragment-free URLs with the same path get the same verdict, whatever
\* their scheme, host name and query string.
C7_VerdictFromPathAlone ==
    (clsPc = "classified" /\ ~ClsHasFragment /\ ClsPassesFragmentRejection)
        => \A s \in ClsSchemes, h \in ClsHosts, q \in ClsQueries :
               isLikelyPostUrl(ClsSamePathUrl(s, h, q)) = clsVerdict

-----------------------------------------------------------------------------
(* Properties of the moderation adapter, checked under SpecModeration.     *)

\* The text given to the adapter holds a danger keyword / a safe keyword.
ModTextHasDanger == HasDangerKeyword(ToLowerCase(modText))
ModTextHasSafe == HasSafeKeyword(ToLowerCase(modText))

\* The path of the URL given to the adapter holds a tool/download keyword.
ModUrlHasToolKeyword == HasToolKeyword(ToLowerCase(ParseUrl(modUrl).pathname))

\* The adapter returned the safe verdict without calling the classifier.
ModShortCircuited ==
    modPc = "returned" /\ modVerdict = SafeVerdict /\ modCalls = 0

\* C8: text with a danger keyword is never short-circuited as safe, and the
\* external classifier is called for it (once, when a client is configured; with
\* no client the call statement of route.ts:390 is reached and throws).
C8_DangerEscalates ==
    (modPc # "start" /\ ModTextHasDanger)
        => /\ ~ModShortCircuited
           /\ modConfigured => modCalls = 1

\* C8's case: text with a danger and a safe keyword, a URL free of tool keywords,
\* and the classifier called.
C8_Witness ==
    /\ modPc = "calling"
    /\ ModTextHasDanger
    /\ ModTextHasSafe
    /\ ~ModUrlHasToolKeyword
    /\ modCalls = 1

\* C9 as stated: text with a safe keyword and no danger keyword gets the safe
\* verdict and no external call, for every URL.
C9_SafeSkipsCall_AnyUrl ==
    (modPc # "start" /\ ~ModTextHasDanger /\ ModTextHasSafe)
        => ModShortCircuited

\* C9 amended: the same, for the URLs whose path holds no tool/download keyword.
C9_SafeSkipsCall ==
    (modPc # "start" /\ ~ModTextHasDanger /\ ModTextHasSafe /\ ~ModUrlHasToolKeyword)
        => ModShortCircuited

\* C9's case: a safe text on a URL free of tool keywords, with a client configured,
\* returned as safe with no call made.
C9_Witness ==
    /\ modPc = "returned"
    /\ ~ModTextHasDanger
    /\ ModTextHasSafe
    /\ ~ModUrlHasToolKeyword
    /\ modConfigured
    /\ modVerdict = SafeVerdict
    /\ modCalls = 0

\* The classifier's reply was a JSON object whose violations field is an array
\* of objects, so that the filter of route.ts:488 ran to its end.
ModFilterRan ==
    /\ modPc = "returned"
    /\ modCalls = 1
    /\ modReply.kind = "json"
    /\ modReply.vt = "array"
    /\ \A i \in 1..Len(modReply.vitems) : ~modReply.vitems[i].isNull

\* The indices of the reported violations whose confidence exceeds 0.8.
ModAboveCutoff ==
    { i \in 1..Len(modReply.vitems) :
        /\ modReply.vitems[i].confidence.has
        /\ modReply.vitems[i].confidence.x100 > 80 }

\* C11: every violation the adapter returns has a confidence above 0.8 (a
\* violation at exactly 0.8, below it or without a confidence is dropped), and
\* the filter drops nothing above 0.8: the verdict holds, in the order reported,
\* exactly the reported violations above 0.8.
C11_HardConfidenceCutoff ==
    /\ modPc = "returned" =>
          \A j \in 1..Len(modVerdict.violations) :
             /\ modVerdict.violations[j].confidence.has
             /\ modVerdict.violations[j].confidence.x100 > 80
    /\ ModFilterRan =>
          /\ Len(modVerdict.violations) = Cardinality(ModAboveCutoff)
          /\ \A i \in ModAboveCutoff :
                modVerdict.violations[Cardinality({ h \in ModAboveCutoff : h <= i })]
                   = modReply.vitems[i]

\* C11's case: a reply reporting one violation at exactly 0.8 and one at 0.95,
\* of which the verdict keeps the second only.
C11_Witness ==
    /\ ModFilterRan
    /\ Len(modReply.vitems) = 2
    /\ modReply.vitems[1].confidence = Confidence(80)
    /\ modReply.vitems[2].confidence = Confidence(95)
    /\ Len(modVerdict.violations) = 1
    /\ modVerdict.violations[1].confidence = Confidence(95)

-----------------------------------------------------------------------------
(* Properties of the scan.                                                 *)

\* C1: if the homepage fetch fails, the request ends with the scan-failure
\* response (status 500, error "Scan failed", with a message) and nothing else
\* has run or runs: the homepage fetch is the only call made, and there is no
\* expansion task, no classified post, no moderation and no per-post task.
C1_HomeFetchFailureIsFatal ==
    homepage.st = "empty" =>
        /\ pc = "done"
        /\ response = ScanFailed("Failed to fetch homepage")
        /\ response.status = 500 /\ response.error # "" /\ response.message # ""
        /\ calls = [ NoCalls EXCEPT !.fetchHTML = 1 ]
        /\ crawlTasks = << >>
        /\ crawled = << >>
        /\ uniquePosts = << >>
        /\ postTasks = << >>
        /\ pagesWithIssues = << >>

C1_Witness ==
    /\ homepage.st = "empty"
    /\ url = SmallHomeUrl
    /\ response.status = 500

\* C2: during the expansion, once the frontier holds more than MAX_PAGES links
\* no step adds a link to it.
C2_NoLinkAddedOverBudget ==
    [][Len(crawled) > MAX_PAGES => crawled' = crawled]_vars

\* C10: no outcome of a classifier call is fatal: a scan whose homepage was
\* fetched ends with a report (status 200), never with the scan-failure response.
C10_ClassifierOutcomeNeverFatal ==
    (homepage.st = "html" /\ pc = "done") => response.status = 200

\* The step in which the handler produces its response.
Responds == response = NoResponse /\ response' # NoResponse

\* C21: once the homepage has been fetched, the scan produces one response only,
\* and the response it produces is a report (status 200), not the scan-failure
\* response, whatever the later fetches and classifier calls return.
C21_FetchedHomepageEndsWithReport ==
    /\ [][response # NoResponse => response' = response]_vars
    /\ [][(homepage.st = "html" /\ Responds) => response'.status = 200]_vars

\* The step in which the fetch of expansion task i / of per-post task k fails.
CrawlFetchFails(i) ==
    /\ crawlTasks[i].st = "fetching"
    /\ Len(crawlTasks') = Len(crawlTasks)
    /\ crawlTasks'[i].st = "failed"

PostFetchFails(k) ==
    /\ postTasks[k].st = "fetching"
    /\ Len(postTasks') = Len(postTasks)
    /\ postTasks'[k].st = "failed"

\* Every URL of links is in the frontier.
InFrontier(links) ==
    \A n \in 1..Len(links) : \E m \in 1..Len(crawled) : crawled[m] = links[n]

\* The frontier holds every seed link and, for every expansion task whose fetch
\* succeeded, the links of a page that fetch can return.
FrontierKeepsLinks ==
    \A i \in 1..Len(crawlTasks) :
       /\ InFrontier(<< crawlTasks[i].link >>)
       /\ (crawlTasks[i].st = "done" /\ Len(crawled) <= MAX_PAGES)
             => \E result \in FetchOutcomes(world, crawlTasks[i].link) :
                   result.ok /\ InFrontier(extractLinks(result.page, url))

\* C16: a failed fetch of an expansion page or of a post changes nothing but the
\* status of its own task: the frontier, the findings, the accumulator of seen
\* content, the response and the other tasks stay as they are, so the scan goes
\* on and the other pages are processed as without it; and the frontier keeps
\* every seed link and the links of the expansion pages fetched.
C16_FailedFetchContributesNothing ==
    /\ []FrontierKeepsLinks
    /\ [][ \A i \in 1..Len(crawlTasks) :
             CrawlFetchFails(i) =>
                /\ UNCHANGED << crawled, uniquePosts, postTasks, allContentHashes,
                                pagesWithIssues, homepageAI, pc, response >>
                /\ \A j \in 1..Len(crawlTasks) : j # i => crawlTasks'[j] = crawlTasks[j] ]_vars
    /\ [][ \A k \in 1..Len(postTasks) :
             PostFetchFails(k) =>
                /\ UNCHANGED << crawled, uniquePosts, crawlTasks, allContentHashes,
                                pagesWithIssues, homepageAI, pc, response >>
                /\ \A j \in 1..Len(postTasks) : j # k => postTasks'[j] = postTasks[j] ]_vars

\* C16's case: a scan in which an expansion fetch and a post fetch failed, ended
\* with a report that holds findings for other posts.
C16_Witness ==
    /\ pc = "done"
    /\ response.status = 200
    /\ \E i \in 1..Len(crawlTasks) : crawlTasks[i].st = "failed"
    /\ \E k \in 1..Len(postTasks) : postTasks[k].st = "failed"
    /\ Len(uniquePosts) = 3
    /\ Len(response.report.pagesWithIssues) > 0


\* u has the host name of the homepage URL of the request and no "#".
SameHostNoFragment(u) ==
    /\ ParseUrl(u).hostname = ParseUrl(url).hostname
    /\ ~Includes(u, "#")

PostPassed(k) ==
    /\ postTasks[k].st \in { "moderating", "done" }
    /\ postTasks[k].contextLength >= 200

\* Per-post tasks j and k have fetched the same body text, longer than 100.
SameBody(j, k) ==
    /\ postTasks[j].bodyText = postTasks[k].bodyText
    /\ Len(postTasks[k].bodyText) > 100

\* Task k went on to analyzeTextWithAI (659) / pushed the duplicate finding (644).
PostAnalysed(k) == postTasks[k].mode # ""
PostReportedDuplicate(k) ==
    \E n \in 1..Len(pagesWithIssues) :
        pagesWithIssues[n] = DuplicateFinding(postTasks[k].url)

\* How many times the accumulator holds the body text of task k.
TimesAccumulated(k) ==
    Cardinality({ n \in 1..Len(allContentHashes) :
                    allContentHashes[n] = postTasks[k].bodyText })

\* The tasks of the batch that passed with the body text of task k.
SameBodyTasks(k) ==
    { j \in 1..Len(postTasks) : PostPassed(j) /\ SameBody(j, k) }

\* C18 as stated: of any two posts of a batch that passed with the same body
\* text, exactly one is appended and analysed and the other is reported as a
\* duplicate.
C18_OneOfAnyTwoAnalysed ==
    \A j, k \in 1..Len(postTasks) :
       (j # k /\ PostPassed(j) /\ PostPassed(k) /\ SameBody(j, k)) =>
          /\ TimesAccumulated(k) = 1
          /\ PostAnalysed(j) # PostAnalysed(k)
          /\ PostReportedDuplicate(j) # PostReportedDuplicate(k)
          /\ PostAnalysed(j) # PostReportedDuplicate(j)

\* C18 amended: of all the posts of a batch that passed with the same body text,
\* exactly one is appended and analysed, and every other one is reported as a
\* duplicate and not analysed; the text is in the accumulator once.
C18_OneOfAllAnalysed ==
    \A k \in 1..Len(postTasks) :
       (PostPassed(k) /\ SameBody(k, k)) =>
          /\ TimesAccumulated(k) = 1
          /\ Cardinality({ j \in SameBodyTasks(k) : PostAnalysed(j) }) = 1
          /\ \A j \in SameBodyTasks(k) : PostAnalysed(j) # PostReportedDuplicate(j)

\* C18's case: three posts of the batch passed with the same body text; the one
\* fetched last of the list was appended and analysed, the two others are
\* reported as duplicates.
C18_Witness ==
    /\ Len(postTasks) = 3
    /\ SameBodyTasks(1) = { 1, 2, 3 }
    /\ PostAnalysed(3) /\ PostReportedDuplicate(1) /\ PostReportedDuplicate(2)
    /\ TimesAccumulated(3) = 1


-----------------------------------------------------------------------------
(* Properties of the batches, checked under SpecBatch.                     *)

\* The per-post tasks in flight: started and not yet returned.
InFlight == { k \in 1..Len(postTasks) : postTasks[k].st \in { "fetching", "moderating" } }

\* The tasks that exist are those of one batch: at most 12 posts, taken in the
\* order of the list of posts from the start of the batch.
OneBatchInOrder ==
    /\ Len(postTasks) <= 12
    /\ Cardinality(InFlight) <= 12
    /\ Len(postTasks) > 0 =>
          /\ batchStart % 12 = 1
          /\ Len(postTasks) = Min(12, Len(uniquePosts) - batchStart + 1)
          /\ \A k \in 1..Len(postTasks) :
                postTasks[k].url = uniquePosts[batchStart + k - 1]

\* C19: the per-post tasks run in batches of 12 in the order of the posts; at most
\* 12 are in flight, and the tasks of the next batch start only when every task
\* of the batch has returned, with a finding, with none or with a failed fetch.
C19_BatchesOfTwelveInOrder ==
    /\ []OneBatchInOrder
    /\ [][ batchStart' # batchStart =>
             /\ InFlight = { }
             /\ batchStart' = batchStart + (IF batchStart = 0 THEN 1 ELSE 12)
             /\ \A k \in 1..Len(postTasks') : postTasks'[k].st = "fetching" ]_vars

\* C19's case: the second batch is in flight after a first batch of 12 whose
\* tasks returned with a finding, with none and with a failed fetch.
C19_Witness ==
    /\ batchStart = 13
    /\ InFlight # { }
    /\ Len(uniquePosts) > 12
    /\ Len(pagesWithIssues) = 1
    /\ pagesWithIssues[1].url = BatchedPostUrl(3)

-----------------------------------------------------------------------------
(* Properties of the combination of the two sources of violations, checked *)
(* under SpecFlagged.                                                      *)

\* The step in which the moderation of the homepage returns.
HomeModerationReturns == pc = "homeAI" /\ pc' # "homeAI"

\* The step in which the moderation of the k-th post of the batch returns and
\* the scan goes on.
PostModerationReturns(k) ==
    /\ k <= Len(postTasks')
    /\ postTasks[k].st = "moderating"
    /\ postTasks'[k].st = "done"
    /\ response' = response

\* The violations reported in this step for the post of the given URL: those of
\* the finding pushed, none when nothing is pushed.
ReportedInStep(pageUrl) ==
    IF Len(pagesWithIssues') = Len(pagesWithIssues) + 1
          /\ pagesWithIssues'[Len(pagesWithIssues')].url = pageUrl
    THEN pagesWithIssues'[Len(pagesWithIssues')].violations
    ELSE << >>

HomeViolationsAdditive ==
    HomeModerationReturns =>
        homepageAI'.violations = homeRetained' \o detectClearViolations(homepage.page)

PostViolationsAdditive ==
    \A k \in 1..Len(postTasks) :
        PostModerationReturns(k) =>
            /\ ReportedInStep(postTasks[k].url)
                  = postTasks'[k].retained \o detectClearViolations(postTasks[k].page)
            /\ \A i \in 1..Len(pagesWithIssues) : pagesWithIssues'[i] = pagesWithIssues[i]

\* The violations of the homepage and of the findings are those counted in the
\* report, five points each.
ViolationsCounted ==
    (pc = "done" /\ response.status = 200) =>
        /\ response.report.totalViolations
              = Len(homepageAI.violations) + SumViolations(pagesWithIssues)
        /\ response.report.pagesWithIssues = pagesWithIssues
        /\ response.report.score <= Max(0, 100 - 5 * response.report.totalViolations)

\* C20: for the homepage and every moderated post the violations of the page are
\* the adapter's retained violations followed by all rule-based ones, nothing
\* removed or merged, also when the adapter's verdict is the safe one or an
\* empty one; they are all counted in the report and its score.
C20_ViolationsAdditive ==
    /\ [][HomeViolationsAdditive]_vars
    /\ [][PostViolationsAdditive]_vars
    /\ []ViolationsCounted

\* C20's case: a report in which the homepage was short-circuited as safe and
\* has a rule-based violation, the guide likewise, and the sale has the
\* adapter's violation and the two rule-based ones, the first equal to the
\* adapter's.
C20_Witness ==
    /\ pc = "done" /\ response.status = 200
    /\ homeMode = "safe" /\ Len(homepageAI.violations) = 1
    /\ Len(pagesWithIssues) = 2
    /\ \E i, j \in 1..2 :
          /\ pagesWithIssues[i].url = FlaggedGuideUrl
          /\ Len(pagesWithIssues[i].violations) = 1
          /\ pagesWithIssues[j].url = FlaggedSaleUrl
          /\ Len(pagesWithIssues[j].violations) = 3
          /\ pagesWithIssues[j].violations[1] = pagesWithIssues[j].violations[2]
    /\ response.report.totalViolations = 5

-----------------------------------------------------------------------------
(* The order of completion of the tasks of a batch, checked under          *)
(* SpecTwins.  The pages and the verdicts of the site are fixed, so its    *)
(* scans differ in the order of completion only: they all report the same  *)
(* numbers exactly when they all report the numbers of the scan in which   *)
(* the posts complete in the order of the list.                            *)

\* The violations counted when the posts complete in the order of the list: the
\* rule-based ones of the first twin and of the other post (the classifier adds
\* none), and the one of the second twin, reported as a duplicate.
InOrderTotalViolations ==
    Len(detectClearViolations(TwinsHome))
    + Len(detectClearViolations(TwinsFirst))
    + Len(DuplicateFinding(TwinsSecondUrl).violations)
    + Len(detectClearViolations(TwinsOther))

\* The score of that scan, route.ts:742-752.
InOrderScore ==
    Score(InOrderTotalViolations,
          Len(checkRequiredPages(extractLinks(TwinsHome, TwinsHomeUrl)).missing),
          Len(analyzeContentQuality(TwinsHome).issues),
          3, TwinsHome.metaCount > 0, analyzeContentQuality(TwinsHome).hasProperHeadings)

\* C22: the report's totalViolations and score do not depend on the order in
\* which the tasks of a batch complete, also when two posts of the batch have
\* nearly the same text: every scan of the site reports the numbers of the scan
\* in which the posts complete in the order of the list.
C22_OrderOfCompletionIrrelevant ==
    (pc = "done" /\ response.status = 200) =>
        /\ response.report.totalViolations = InOrderTotalViolations
        /\ response.report.score = InOrderScore

-----------------------------------------------------------------------------
(* Properties of the aggregation, checked under SpecReport.                *)

\* V: the violations of all findings and of the homepage.
RepV ==
    Len(pureArgs.homeAI.violations)
    + Len(Flatten([ i \in 1..Len(pureArgs.findings) |-> pureArgs.findings[i].violations ]))

\* M: the missing required pages.
RepM == Len(pureArgs.required.missing)

\* H: the structure issues of the homepage, as the report lists them among its
\* structure warnings.
RepH ==
    Cardinality({ i \in 1..Len(pureResult.report.structureWarnings) :
                    StartsWith(pureResult.report.structureWarnings[i], "Homepage: ") })

\* The classified posts.
RepN == Len(pureArgs.posts)

\* T: the deduction for the volume of content.
RepT == IF RepN < 20 THEN 10 ELSE IF RepN <= 39 THEN 5 ELSE 0

RepReported == purePc = "returned" /\ pureResult.status = 200

\* C12: the score of the report is
\* max(0, min(100, 100 - 5V - 5M - 2H - T - 3[no meta] - 3[weak headings])), an
\* integer in 0..100; 3 violations, 1 missing page and 5 posts deduct 30.
C12_ScoreFormula ==
    purePc = "returned" =>
       /\ pureResult.status = 200
       /\ pureResult.report.score =
             Max(0, Min(100, 100 - 5 * RepV - 5 * RepM - 2 * RepH - RepT
                             - (IF pureResult.report.hasMetaTags THEN 0 ELSE 3)
                             - (IF pureResult.report.hasGoodHeaders THEN 0 ELSE 3)))
       /\ pureResult.report.score \in 0..100
       /\ (/\ RepV = 3 /\ RepM = 1 /\ RepN = 5 /\ RepH = 0
           /\ pureResult.report.hasMetaTags /\ pureResult.report.hasGoodHeaders)
             => pureResult.report.score = 100 - 15 - 5 - 10

\* C12's case: 3 violations, 1 missing page, 5 posts and nothing else deducted.
C12_Witness ==
    /\ RepReported
    /\ RepV = 3 /\ RepM = 1 /\ RepN = 5 /\ RepH = 0
    /\ pureResult.report.hasMetaTags /\ pureResult.report.hasGoodHeaders
    /\ pureResult.report.score = 70

\* The premises of C13: no violation, no missing page, at least 40 posts, a meta
\* description and a proper heading structure on the homepage.
RepCleanSite ==
    /\ RepReported
    /\ RepV = 0 /\ RepM = 0 /\ RepN >= 40
    /\ pureArgs.home.metaCount > 0
    /\ analyzeContentQuality(pureArgs.home).hasProperHeadings

\* C13 as stated: under these premises the score is 100.
C13_CleanSiteScores100 ==
    RepCleanSite => pureResult.report.score = 100

\* C13 amended: under these premises and with no structure issue on the
\* homepage (its content has at least MIN_CONTENT_WORDS words), the score is 100.
C13_CleanSiteWithoutIssuesScores100 ==
    (RepCleanSite /\ analyzeContentQuality(pureArgs.home).issues = << >>)
        => pureResult.report.score = 100

\* C13's case: a clean site of exactly 40 posts whose homepage has 300 words.
C13_Witness ==
    /\ RepCleanSite
    /\ RepN = 40
    /\ analyzeContentQuality(pureArgs.home).wordCount = MIN_CONTENT_WORDS
    /\ pureResult.report.score = 100

\* C14: the summary is the violations summary when V > 0, whatever the post
\* count; otherwise the low-content summary when there are fewer than 20 posts;
\* otherwise the compliant summary.
C14_SummaryPriority ==
    RepReported =>
       pureResult.report.summary =
          IF RepV > 0
          THEN ToString(RepV) \o " violations found across "
               \o ToString(Len(pureArgs.findings)) \o " posts."
          ELSE IF RepN < 20
          THEN "Low content (" \o ToString(RepN) \o " posts)."
          ELSE "Site appears compliant."

\* C14's case: no violation and 25 posts, summarised as compliant.
C14_Witness ==
    /\ RepReported
    /\ RepV = 0
    /\ RepN = 25
    /\ pureResult.report.summary = "Site appears compliant."

-----------------------------------------------------------------------------
(* Properties of the duplicate detector, checked under SpecDuplicate.      *)

\* Two normalised texts differ at every position the detector compares.
DupDifferEverywhere(candidate, prior) ==
    \A i \in 1..Min(Len(candidate), Len(prior)) : CharAt(candidate, i) # CharAt(prior, i)

\* C15: the detector returns true for a text of normalised length above 100
\* that is in the prior list; false when every prior text differs from the
\* candidate at every compared position (of the normalised texts); and false
\* when the prior list is empty or every comparison length is 100 or less.
C15_DuplicateDetector ==
    purePc = "returned" =>
       LET candidate == NormalizeContent(pureArgs.content)
           priors == [ n \in 1..Len(pureArgs.existingContent) |->
                         NormalizeContent(pureArgs.existingContent[n]) ]
       IN  /\ (/\ Len(candidate) > 100
               /\ \E n \in 1..Len(priors) : pureArgs.existingContent[n] = pureArgs.content)
                 => pureResult = TRUE
           /\ (\A n \in 1..Len(priors) : DupDifferEverywhere(candidate, priors[n]))
                 => pureResult = FALSE
           /\ (\A n \in 1..Len(priors) : Min(Len(candidate), Len(priors[n])) <= 100)
                 => pureResult = FALSE

\* C15's case: a text of 125 characters checked against a list that holds a
\* text differing everywhere and the text itself.
C15_Witness ==
    /\ purePc = "returned"
    /\ pureArgs.content = Repeated("tomato ", 18)
    /\ pureArgs.existingContent = << Repeated("zzzzzzz", 18), Repeated("tomato ", 18) >>
    /\ Len(NormalizeContent(pureArgs.content)) = 125
    /\ pureResult = TRUE

=============================================================================
